---- MODULE Spec2Model ----
(***************************************************************************)
(* A model of cmdrvl/lock: the witness ledger (src/witness/mod.rs), the    *)
(* lock and verify orchestrators (src/lib.rs, src/verify/mod.rs), the      *)
(* canonical encoder and self-hash (src/lockfile/self_hash.rs) and the     *)
(* record classification (src/lockfile/mod.rs).                            *)
(***************************************************************************)
EXTENDS Integers, Sequences, FiniteSets, TLC

\* ------------------------------------------------------------------ bounds

\* Number of processes (tool invocations) that append to the same ledger.
NumProcs == 3

\* Longest initial ledger content (blank lines only), in bytes.
MaxInitLen == 2

VARIABLES
    ledgerExists,   \* whether the ledger file exists
    ledgerBytes,    \* its content, a sequence of ledger bytes (see below)
    lockHolder,     \* the set of processes holding the exclusive flock
    pc,             \* per process: where it is in append_witness_record_to
    prevRead,       \* per process: the prev it read under the lock
    result,         \* per process: what its call returned
    tornTail,       \* history: some failed call left bytes without "\n"
    jsonA, jsonB,   \* two serde_json values handed to to_canonical_json
    canonA, canonB, \* what to_canonical_json returned for them
    records,        \* the values of the input records handed to classify_records
    permuted,       \* the same records in another order
    classA, classB, \* what classify_records returned for the two orders
    lockJson,       \* the text of a lockfile
    tampered,       \* whether a field of it was changed after it was rendered
    verdict,        \* what verify_lock_hash_from_json returned for it
    runInput,       \* the command line and the files of a run of the tool
    run,            \* what the run returned, printed and appended
    call,           \* one call of a function of the tool: its name and arguments
    ret             \* what that call returned

ledgerVars == <<ledgerExists, ledgerBytes>>
procVars == <<lockHolder, pc, prevRead, result, tornTail>>
canonVars == <<jsonA, jsonB, canonA, canonB>>
classifyVars == <<records, permuted, classA, classB>>
hashVars == <<lockJson, tampered, verdict>>
runVars == <<runInput, run>>
callVars == <<call, ret>>
otherVars == <<canonVars, classifyVars, hashVars, runVars, callVars>>
vars == <<ledgerVars, procVars, otherVars>>

None == [none |-> TRUE]
Ok(value) == [ok |-> value]
Err(error) == [err |-> error]
Range(seq) == { seq[i] : i \in 1..Len(seq) }

\* What a variable holds in a specification that does not use it.
canonIdle == jsonA = None /\ jsonB = None /\ canonA = None /\ canonB = None
classifyIdle == records = None /\ permuted = None /\ classA = None /\ classB = None
hashIdle == lockJson = None /\ tampered = None /\ verdict = None
runIdle == runInput = None /\ run = None
callIdle == call = None /\ ret = None
otherIdle == canonIdle /\ classifyIdle /\ hashIdle /\ runIdle /\ callIdle
procIdle ==
    /\ lockHolder = None /\ pc = None /\ prevRead = None /\ result = None
    /\ tornTail = None
ledgerIdle == ledgerExists = None /\ ledgerBytes = None /\ procIdle

Procs == 1..NumProcs

\* ------------------------------------------------------- the ledger file
\* The file is a sequence of "bytes".  A serialized record contains no
\* newline (serde_json escapes it), so a whole record line is one element;
\* NL is "\n", WS is a whitespace byte other than "\n", and Torn is a proper
\* prefix of a record line (what an interrupted write leaves).

NL == [k |-> "nl"]
WS == [k |-> "ws"]
Torn == [k |-> "torn"]

\* "blake3:" + hex(BLAKE3(bytes)): modelled as an injective tag of the preimage.
blake3(preimage) == [h |-> "blake3", of |-> preimage]

\* The record built by append_witness_record_to: first with id = "", then
\* with id = BLAKE3 of that serialization.
witness_record(outcome, exit_code, output_hash, prev) ==
    LET pre == [id |-> "", outcome |-> outcome, exit_code |-> exit_code,
                output_hash |-> output_hash, prev |-> prev]
    IN  [k |-> "rec", id |-> blake3(pre), outcome |-> outcome,
         exit_code |-> exit_code, output_hash |-> output_hash, prev |-> prev]

\* The backward scan of read_last_non_empty_line: from the end of the file,
\* skip "\n" until a byte that is not "\n" was seen, then collect up to the
\* next "\n" (or the start of the file).
RECURSIVE scan_back(_, _, _, _)
scan_back(bytes, cursor, line_bytes, saw_non_newline) ==
    IF cursor = 0 THEN line_bytes
    ELSE IF bytes[cursor] = NL
         THEN IF saw_non_newline THEN line_bytes
              ELSE scan_back(bytes, cursor - 1, line_bytes, saw_non_newline)
         ELSE scan_back(bytes, cursor - 1, <<bytes[cursor]>> \o line_bytes, TRUE)

\* str::trim on a line: whitespace removed at both ends.
RECURSIVE trim_start(_)
trim_start(line) ==
    IF line # <<>> /\ Head(line) = WS THEN trim_start(Tail(line)) ELSE line

RECURSIVE trim_end(_)
trim_end(line) ==
    IF line # <<>> /\ line[Len(line)] = WS
    THEN trim_end(SubSeq(line, 1, Len(line) - 1)) ELSE line

trim(line) == trim_end(trim_start(line))

NoLine == <<>>

\* The mutant of read_last_non_empty_line used by WitnessChain: the scan
\* stops at the first "\n" it meets, also the one that ends the last line.
read_last_non_empty_line_first_newline(bytes) ==
    IF Len(bytes) = 0 \/ bytes[Len(bytes)] = NL THEN NoLine
    ELSE trim(scan_back(bytes, Len(bytes), <<>>, TRUE))

\* Ok(None) is NoLine, the empty line: a line that is returned is never empty.
read_last_non_empty_line(bytes) ==
    IF Len(bytes) = 0 THEN NoLine
    ELSE LET line_bytes == scan_back(bytes, Len(bytes), <<>>, FALSE)
         IN  IF line_bytes = <<>> THEN NoLine ELSE trim(line_bytes)

\* serde_json::from_str on one line: it parses exactly when the line is one
\* whole record; a torn prefix, or two records run together, do not parse.
parse_line(line) ==
    IF Len(line) = 1 /\ line[1].k = "rec" THEN line[1] ELSE None

read_last_record_id(bytes) ==
    LET last_line == read_last_non_empty_line(bytes)
    IN  IF last_line = NoLine THEN None
        ELSE LET record == parse_line(last_line)
             IN  IF record = None \/ "id" \notin DOMAIN record THEN None
                 ELSE record.id

\* The lines of the file as BufRead::lines yields them (split at "\n", a
\* last line without "\n" included).
RECURSIVE split_lines(_, _)
split_lines(bytes, cur) ==
    IF bytes = <<>> THEN (IF cur = <<>> THEN <<>> ELSE <<cur>>)
    ELSE IF Head(bytes) = NL THEN <<cur>> \o split_lines(Tail(bytes), <<>>)
         ELSE split_lines(Tail(bytes), Append(cur, Head(bytes)))

RECURSIVE keep_records(_)
keep_records(lines) ==
    IF lines = <<>> THEN <<>>
    ELSE LET trimmed == trim(Head(lines))
             rest == keep_records(Tail(lines))
         IN  IF trimmed = <<>> \/ parse_line(trimmed) = None THEN rest
             ELSE <<parse_line(trimmed)>> \o rest

\* read_ledger: blank and unparseable lines are dropped.
read_ledger(exists, bytes) ==
    IF ~exists THEN <<>> ELSE keep_records(split_lines(bytes, <<>>))

\* -------------------------------------------- append_witness_record_to
\* Each process is one invocation of the tool: it calls
\* append_witness_record_to once, after its payload is printed.

\* The (outcome, exit_code) pairs the callers pass.
AppendArgs == { <<"LOCK_CREATED", 0>>, <<"REFUSAL", 2>> }

\* The mutant of lock_exclusive_ready used by SerializedAppends: the lock is
\* granted whoever holds it.
lock_exclusive_unguarded(holders) == TRUE

\* lock_exclusive returns once no other open file holds the lock.
lock_exclusive_ready(holders) == holders = {}

\* The mutant of drop_file used by LockAlwaysReleased: the flock outlives
\* the call.
drop_file_keeps_lock(p, holders) == holders

\* Returning (Ok or Err) drops the File: the descriptor is closed and the
\* flock it held is released.
drop_file(p, holders) == holders \ {p}

NoResult == "none"

\* open with create(true).read(true).append(true): the file is created empty
\* when it is absent.
Open(p) ==
    /\ pc[p] = "open"
    /\ ledgerExists' = TRUE
    /\ ledgerBytes' = IF ledgerExists THEN ledgerBytes ELSE <<>>
    /\ pc' = [pc EXCEPT ![p] = "lock"]
    /\ UNCHANGED <<lockHolder, prevRead, result, tornTail>>
    /\ UNCHANGED otherVars

\* create_dir_all or open fails: Err before anything is touched.
OpenFail(p) ==
    /\ pc[p] = "open"
    /\ pc' = [pc EXCEPT ![p] = "done"]
    /\ result' = [result EXCEPT ![p] = "Err"]
    /\ UNCHANGED <<ledgerVars, lockHolder, prevRead, tornTail>>
    /\ UNCHANGED otherVars

Lock(p) ==
    /\ pc[p] = "lock"
    /\ lock_exclusive_ready(lockHolder)
    /\ lockHolder' = lockHolder \cup {p}
    /\ pc' = [pc EXCEPT ![p] = "read"]
    /\ UNCHANGED <<ledgerVars, prevRead, result, tornTail>>
    /\ UNCHANGED otherVars

\* lock_exclusive fails: Err, the file is closed.
LockFail(p) ==
    /\ pc[p] = "lock"
    /\ pc' = [pc EXCEPT ![p] = "done"]
    /\ result' = [result EXCEPT ![p] = "Err"]
    /\ UNCHANGED <<ledgerVars, lockHolder, prevRead, tornTail>>
    /\ UNCHANGED otherVars

ReadLast(p) ==
    /\ pc[p] = "read"
    /\ prevRead' = [prevRead EXCEPT ![p] = read_last_record_id(ledgerBytes)]
    /\ pc' = [pc EXCEPT ![p] = "write"]
    /\ UNCHANGED <<ledgerVars, lockHolder, result, tornTail>>
    /\ UNCHANGED otherVars

\* seek(End) and the first write of writeln!: the serialized record, built
\* from the caller's outcome and exit code and the prev read above.  The
\* output hash is that of the caller's stdout bytes, here the outcome.
WriteLine(p) ==
    /\ pc[p] = "write"
    /\ \E a \in AppendArgs :
          ledgerBytes' = Append(ledgerBytes,
              witness_record(a[1], a[2], blake3(a[1]), prevRead[p]))
    /\ pc' = [pc EXCEPT ![p] = "newline"]
    /\ prevRead' = [prevRead EXCEPT ![p] = None]
    /\ UNCHANGED <<ledgerExists, lockHolder, result, tornTail>>
    /\ UNCHANGED otherVars

\* seek or write fails: Err; the write may have put a prefix of the line.
WriteFail(p) ==
    /\ pc[p] = "write"
    /\ \E torn \in BOOLEAN :
          /\ ledgerBytes' = IF torn THEN Append(ledgerBytes, Torn) ELSE ledgerBytes
          /\ tornTail' = (tornTail \/ torn)
    /\ lockHolder' = drop_file(p, lockHolder)
    /\ pc' = [pc EXCEPT ![p] = "done"]
    /\ prevRead' = [prevRead EXCEPT ![p] = None]
    /\ result' = [result EXCEPT ![p] = "Err"]
    /\ UNCHANGED <<ledgerExists>>
    /\ UNCHANGED otherVars

\* The second write of writeln!: the "\n".
WriteNewline(p) ==
    /\ pc[p] = "newline"
    /\ ledgerBytes' = Append(ledgerBytes, NL)
    /\ pc' = [pc EXCEPT ![p] = "unlock"]
    /\ UNCHANGED <<ledgerExists, lockHolder, prevRead, result, tornTail>>
    /\ UNCHANGED otherVars

\* The write of "\n" fails: Err, the record stays without its newline.
WriteNewlineFail(p) ==
    /\ pc[p] = "newline"
    /\ tornTail' = TRUE
    /\ lockHolder' = drop_file(p, lockHolder)
    /\ pc' = [pc EXCEPT ![p] = "done"]
    /\ result' = [result EXCEPT ![p] = "Err"]
    /\ UNCHANGED <<ledgerVars, prevRead>>
    /\ UNCHANGED otherVars

\* file.unlock()? and Ok(()); when unlock fails the call returns Err, and
\* the lock goes with the closed file all the same.
Unlock(p) ==
    /\ pc[p] = "unlock"
    /\ lockHolder' = drop_file(p, lockHolder)
    /\ pc' = [pc EXCEPT ![p] = "done"]
    /\ \E r \in {"Ok", "Err"} : result' = [result EXCEPT ![p] = r]
    /\ UNCHANGED <<ledgerVars, prevRead, tornTail>>
    /\ UNCHANGED otherVars

\* The ledgers a run starts from: absent, empty, or blank lines only.
RECURSIVE BlankSeqs(_)
BlankSeqs(n) ==
    IF n = 0 THEN { <<>> }
    ELSE BlankSeqs(n - 1) \cup
         { Append(s, b) : s \in { t \in BlankSeqs(n - 1) : Len(t) = n - 1 },
                          b \in {NL, WS} }

Init ==
    /\ ledgerExists \in BOOLEAN
    /\ ledgerBytes \in (IF ledgerExists THEN BlankSeqs(MaxInitLen) ELSE { <<>> })
    /\ lockHolder = {}
    /\ pc = [p \in Procs |-> "open"]
    /\ prevRead = [p \in Procs |-> None]
    /\ result = [p \in Procs |-> NoResult]
    /\ tornTail = FALSE
    /\ otherIdle

Next ==
    \E p \in Procs :
        \/ Open(p)
        \/ OpenFail(p)
        \/ Lock(p)
        \/ LockFail(p)
        \/ ReadLast(p)
        \/ WriteLine(p)
        \/ WriteFail(p)
        \/ WriteNewline(p)
        \/ WriteNewlineFail(p)
        \/ Unlock(p)

Spec == Init /\ [][Next]_vars

\* The steps a running process takes by itself: all but the failure of
\* lock_exclusive, which blocks until the lock is free and fails only when
\* the system makes it fail.
Progress(p) ==
    \/ Open(p) \/ OpenFail(p)
    \/ Lock(p)
    \/ ReadLast(p)
    \/ WriteLine(p) \/ WriteFail(p)
    \/ WriteNewline(p) \/ WriteNewlineFail(p)
    \/ Unlock(p)

\* The appends under fair scheduling: a process that can take its next step
\* takes it, and a process blocked in lock_exclusive gets the lock once it
\* stays free.
SpecFair == Init /\ [][Next]_vars /\ \A p \in Procs : WF_vars(Progress(p))

\* ------------------------------------------------------------ the claims

\* The lines of the ledger that are not blank, trimmed.
RECURSIVE non_empty(_)
non_empty(lines) ==
    IF lines = <<>> THEN <<>>
    ELSE IF trim(Head(lines)) = <<>> THEN non_empty(Tail(lines))
         ELSE <<trim(Head(lines))>> \o non_empty(Tail(lines))

NonEmptyLines == non_empty(split_lines(ledgerBytes, <<>>))

\* C1: as long as every call that wrote to the ledger wrote its whole line,
\* each non-empty line of the ledger is one record, the first record's prev
\* is null, and every other record's prev is the id of the non-empty line
\* right before it.
WitnessChain ==
    ~tornTail =>
        \A i \in 1..Len(NonEmptyLines) :
            /\ Len(NonEmptyLines[i]) = 1
            /\ NonEmptyLines[i][1].k = "rec"
            /\ NonEmptyLines[i][1].prev =
                  (IF i = 1 THEN None ELSE NonEmptyLines[i - 1][1].id)

\* C1 witness: a ledger that began with blank lines and now holds three
\* chained records, none of them torn.
WitnessChainReached ==
    /\ ~tornTail
    /\ Len(ledgerBytes) > 0
    /\ ledgerBytes[1] \in {NL, WS}
    /\ Len(NonEmptyLines) >= 3

\* The processes between lock_exclusive and the end of their call.
InCritical == { p \in Procs : pc[p] \in {"read", "write", "newline", "unlock"} }

Records == read_ledger(ledgerExists, ledgerBytes)

\* The calls that have written their record line.
Writers ==
    { p \in Procs : pc[p] \in {"newline", "unlock"} \/ result[p] = "Ok" }

\* C2: whatever the interleaving, at most one process is between its lock
\* and its unlock, and it holds the lock; and as long as every write was
\* whole, no two records of the ledger share a prev, each record's prev is
\* the id of the record before it, and every call that wrote has its line.
SerializedAppends ==
    /\ Cardinality(InCritical) <= 1
    /\ InCritical \subseteq lockHolder
    /\ ~tornTail =>
          /\ \A i, j \in 1..Len(Records) :
                i # j => Records[i].prev # Records[j].prev
          /\ \A i \in 2..Len(Records) : Records[i].prev = Records[i - 1].id
          /\ Len(Records) >= Cardinality(Writers)

\* C2 witness: one process has written under the lock while another waits
\* for it, after an earlier call already left its record.
SerializedAppendsReached ==
    /\ ~tornTail
    /\ Len(Records) >= 2
    /\ \E p, q \in Procs : p # q /\ pc[p] = "unlock" /\ pc[q] = "lock"

\* The ledger up to its last "\n": its newline-terminated lines.
RECURSIVE terminated(_)
terminated(bytes) ==
    IF bytes = <<>> \/ bytes[Len(bytes)] = NL THEN bytes
    ELSE terminated(SubSeq(bytes, 1, Len(bytes) - 1))

\* The ledger ends with a line an interrupted append left without its "\n":
\* part of a record line, or a whole one.
PartialTail ==
    /\ Len(ledgerBytes) > 0
    /\ ledgerBytes[Len(ledgerBytes)].k \in {"torn", "rec"}

\* The id of the last record among the newline-terminated lines, if any.
LastTerminatedId ==
    LET whole == read_ledger(TRUE, terminated(ledgerBytes))
    IN  IF whole = <<>> THEN None ELSE whole[Len(whole)].id

\* C25: when the ledger ends with a partially written line, the prev that
\* the next append has read under the lock is the id of the last
\* newline-terminated record (null when there is none), not something taken
\* from the partial tail.
PrevSkipsPartialTail ==
    \A p \in Procs :
        (pc[p] = "write" /\ PartialTail) => prevRead[p] = LastTerminatedId

\* C29: a call that took the exclusive lock does not hold it once it has
\* ended, whether it ended with Ok or through an error between lock and
\* unlock; so, under fair scheduling, every process that waits for the lock
\* gets past lock_exclusive and reaches the end of its call, with the lock
\* released again.
LockAlwaysReleased ==
    /\ [](\A p \in Procs : pc[p] = "done" => p \notin lockHolder)
    /\ \A p \in Procs :
          (pc[p] = "lock") ~> (pc[p] = "done" /\ p \notin lockHolder)

\* C29 witness: one call has ended with an error after it took the lock (its
\* write failed part way), another holds the lock now, and a third waits.
LockAlwaysReleasedReached ==
    \E p, q, r \in Procs :
        /\ pc[p] = "done" /\ result[p] = "Err" /\ tornTail
        /\ q \in lockHolder
        /\ pc[r] = "lock"

\* C27: a call of append_witness_record_to that returns Ok has added exactly
\* one record to what read_ledger returns, its own, after the records that
\* were readable before it wrote, whatever the ledger held (a last line
\* without "\n" included): when the call returns, the file ends with its
\* line and "\n", and read_ledger yields what it yielded for the bytes before
\* that line, and then the record.
OkAppendIsReadable ==
    [][\A p \in Procs :
          (pc[p] = "unlock" /\ result'[p] = "Ok") =>
              LET n == Len(ledgerBytes)
              IN  Records = Append(read_ledger(TRUE, SubSeq(ledgerBytes, 1, n - 2)),
                                   ledgerBytes[n - 1])]_vars

\* ------------------------------------------------------ serde_json values
\* A serde_json::Value.  A string is a TLA+ string, or the text of a digest
\* (see sha256 below); an object is the sequence of its <<key, value>>
\* entries in the order the map holds them, with distinct keys.

JNull == [t |-> "null"]
JBool(b) == [t |-> "bool", b |-> b]
JNum(n) == [t |-> "num", n |-> n]
JStr(s) == [t |-> "str", s |-> s]
JArr(items) == [t |-> "arr", items |-> items]
JObj(entries) == [t |-> "obj", entries |-> entries]

\* The characters the model's keys and paths are written in, in code-point
\* order: String's Ord compares byte-wise, which is code-point order.
CodePointOrder == "+-./0123456789:TZ\\_abcdefghijklmnopqrstuvwxyz"

\* The place of each character in that order.
code_point_rank ==
    [c \in { SubSeq(CodePointOrder, i, i) : i \in 1..Len(CodePointOrder) } |->
        CHOOSE i \in 1..Len(CodePointOrder) : SubSeq(CodePointOrder, i, i) = c]

RECURSIVE str_lt(_, _)
str_lt(left, right) ==
    IF right = "" THEN FALSE
    ELSE IF left = "" THEN TRUE
    ELSE IF Head(left) = Head(right) THEN str_lt(Tail(left), Tail(right))
    ELSE code_point_rank[Head(left)] < code_point_rank[Head(right)]

\* BTreeMap::insert on a map kept as its entries in ascending key order.
RECURSIVE btree_insert(_, _, _)
btree_insert(map, key, value) ==
    IF map = <<>> THEN << <<key, value>> >>
    ELSE IF map[1][1] = key THEN << <<key, value>> >> \o Tail(map)
    ELSE IF str_lt(key, map[1][1]) THEN << <<key, value>> >> \o map
    ELSE << map[1] >> \o btree_insert(Tail(map), key, value)

\* Value::get on an object, and Map::insert (an existing key keeps its place).
RECURSIVE map_get(_, _)
map_get(entries, key) ==
    IF entries = <<>> THEN None
    ELSE IF entries[1][1] = key THEN entries[1][2]
    ELSE map_get(Tail(entries), key)

get(value, key) == IF value.t = "obj" THEN map_get(value.entries, key) ELSE None

map_insert(entries, key, value) ==
    IF \E i \in 1..Len(entries) : entries[i][1] = key
    THEN [i \in 1..Len(entries) |->
            IF entries[i][1] = key THEN <<key, value>> ELSE entries[i]]
    ELSE Append(entries, <<key, value>>)

\* ------------------------------------------------- serde_json text format
\* JSON text is a sequence of tokens: punctuation, literals, numbers and
\* strings (a string token holds the string; quoting and escaping are not
\* modelled).  to_string writes compact text, from_str parses it back.

Tok(k) == [k |-> k]
StrTok(string) == [k |-> "str", v |-> string]

RECURSIVE to_string(_), write_items(_), write_entries(_)
to_string(value) ==
    CASE value.t = "null" -> << Tok("null") >>
      [] value.t = "bool" -> << Tok(IF value.b THEN "true" ELSE "false") >>
      [] value.t = "num" -> << [k |-> "num", n |-> value.n] >>
      [] value.t = "str" -> << StrTok(value) >>
      [] value.t = "arr" -> << Tok("[") >> \o write_items(value.items) \o << Tok("]") >>
      [] value.t = "obj" -> << Tok("{") >> \o write_entries(value.entries) \o << Tok("}") >>

write_items(items) ==
    IF items = <<>> THEN <<>>
    ELSE to_string(items[1])
         \o (IF Len(items) > 1 THEN << Tok(",") >> ELSE <<>>)
         \o write_items(Tail(items))

write_entries(entries) ==
    IF entries = <<>> THEN <<>>
    ELSE << StrTok(JStr(entries[1][1])), Tok(":") >> \o to_string(entries[1][2])
         \o (IF Len(entries) > 1 THEN << Tok(",") >> ELSE <<>>)
         \o write_entries(Tail(entries))

\* The parser's results: the value read and the text left, or a syntax error.
Parsed(value, rest) == [ok |-> TRUE, v |-> value, rest |-> rest]
SyntaxError == [ok |-> FALSE]

RECURSIVE parse_value(_), parse_items(_, _), parse_entries(_, _)
parse_value(text) ==
    IF text = <<>> THEN SyntaxError
    ELSE LET tok == Head(text)
             rest == Tail(text)
         IN CASE tok.k = "null" -> Parsed(JNull, rest)
              [] tok.k = "true" -> Parsed(JBool(TRUE), rest)
              [] tok.k = "false" -> Parsed(JBool(FALSE), rest)
              [] tok.k = "num" -> Parsed(JNum(tok.n), rest)
              [] tok.k = "str" -> Parsed(tok.v, rest)
              [] tok.k = "[" ->
                    IF rest # <<>> /\ Head(rest).k = "]"
                    THEN Parsed(JArr(<<>>), Tail(rest))
                    ELSE parse_items(rest, <<>>)
              [] tok.k = "{" ->
                    IF rest # <<>> /\ Head(rest).k = "}"
                    THEN Parsed(JObj(<<>>), Tail(rest))
                    ELSE parse_entries(rest, <<>>)
              [] OTHER -> SyntaxError

parse_items(text, items) ==
    LET item == parse_value(text)
    IN IF ~item.ok \/ item.rest = <<>> THEN SyntaxError
       ELSE IF Head(item.rest).k = ","
            THEN parse_items(Tail(item.rest), Append(items, item.v))
       ELSE IF Head(item.rest).k = "]"
            THEN Parsed(JArr(Append(items, item.v)), Tail(item.rest))
       ELSE SyntaxError

parse_entries(text, entries) ==
    IF Len(text) < 2 \/ text[1].k # "str" \/ text[2].k # ":" THEN SyntaxError
    ELSE LET key == text[1].v.s
             item == parse_value(Tail(Tail(text)))
         IN IF ~item.ok \/ item.rest = <<>> THEN SyntaxError
            ELSE IF Head(item.rest).k = ","
                 THEN parse_entries(Tail(item.rest), map_insert(entries, key, item.v))
            ELSE IF Head(item.rest).k = "}"
                 THEN Parsed(JObj(map_insert(entries, key, item.v)), Tail(item.rest))
            ELSE SyntaxError

\* serde_json::from_str: one value and nothing after it.
from_str(text) ==
    LET parsed == parse_value(text)
    IN IF parsed.ok /\ parsed.rest = <<>> THEN Ok(parsed.v) ELSE None

\* ------------------------------------------- canonical JSON and self-hash

\* sort_json_value that sorts the keys of the outermost object only.
RECURSIVE sort_entries_shallow(_, _)
sort_entries_shallow(entries, sorted) ==
    IF entries = <<>> THEN sorted
    ELSE sort_entries_shallow(Tail(entries),
                              btree_insert(sorted, entries[1][1], entries[1][2]))

sort_json_value_top_level(value) ==
    IF value.t = "obj" THEN JObj(sort_entries_shallow(value.entries, <<>>))
    ELSE value

RECURSIVE sort_json_value(_), sort_entries(_, _)
sort_json_value(value) ==
    CASE value.t = "obj" -> JObj(sort_entries(value.entries, <<>>))
      [] value.t = "arr" ->
            JArr([i \in 1..Len(value.items) |-> sort_json_value(value.items[i])])
      [] OTHER -> value

\* collect::<BTreeMap<String, Value>>() of the entries, values sorted first.
sort_entries(entries, sorted) ==
    IF entries = <<>> THEN sorted
    ELSE sort_entries(Tail(entries),
                      btree_insert(sorted, entries[1][1],
                                   sort_json_value(entries[1][2])))

to_canonical_json(value) == to_string(sort_json_value(value))

\* format!("sha256:{:x}", Sha256::digest(bytes)): the text of the digest.
\* The digest is injective: it is the tag of what was hashed.
sha256(bytes) == [t |-> "str", alg |-> "sha256", of |-> bytes]

\* --------------------------------- specification: canonical encoding

\* Longest array among the values canonicalized.
MaxArrayLen == 2

JsonKeys == {"a", "b"}
Scalars == { JNum(0), JStr("a") }

SeqsUpTo(S, n) == UNION { [1..m -> S] : m \in 0..n }
Arrays(elems) == { JArr(items) : items \in SeqsUpTo(elems, MaxArrayLen) }
Objects(elems) ==
    { JObj(entries) :
        entries \in { e \in SeqsUpTo(JsonKeys \X elems, Cardinality(JsonKeys)) :
                        \A i, j \in 1..Len(e) : i # j => e[i][1] # e[j][1] } }

\* What the containers of the second level hold.
Nested ==
    { JNum(0),
      JArr(<< JNum(0), JStr("a") >>), JArr(<< JStr("a"), JNum(0) >>),
      JObj(<< <<"a", JNum(0)>>, <<"b", JStr("a")>> >>),
      JObj(<< <<"b", JStr("a")>>, <<"a", JNum(0)>> >>) }

JsonValues ==
    Scalars \cup Arrays(Scalars) \cup Objects(Scalars)
            \cup Arrays(Nested) \cup Objects(Nested)

InitCanon ==
    /\ jsonA \in JsonValues
    /\ jsonB \in JsonValues
    /\ canonA = None
    /\ canonB = None
    /\ ledgerIdle /\ classifyIdle /\ hashIdle /\ runIdle /\ callIdle

Canonicalize ==
    /\ canonA = None
    /\ canonA' = Ok(to_canonical_json(jsonA))
    /\ canonB' = Ok(to_canonical_json(jsonB))
    /\ UNCHANGED <<jsonA, jsonB, ledgerVars, procVars, classifyVars, hashVars, runVars, callVars>>

NextCanon == Canonicalize

SpecCanon == InitCanon /\ [][NextCanon]_vars

\* Equality of two values up to the order of object keys, at every depth.
RECURSIVE EqModKeyOrder(_, _)
EqModKeyOrder(a, b) ==
    IF a.t # b.t THEN FALSE
    ELSE CASE a.t = "arr" ->
                /\ Len(a.items) = Len(b.items)
                /\ \A i \in 1..Len(a.items) : EqModKeyOrder(a.items[i], b.items[i])
           [] a.t = "obj" ->
                /\ Len(a.entries) = Len(b.entries)
                /\ \A i \in 1..Len(a.entries) : \E j \in 1..Len(b.entries) :
                      /\ a.entries[i][1] = b.entries[j][1]
                      /\ EqModKeyOrder(a.entries[i][2], b.entries[j][2])
           [] OTHER -> a = b

\* C9: to_canonical_json gives the same text for two values exactly when
\* they are equal up to the order of object keys at every nesting depth; in
\* particular two values that differ in the order of an array's elements
\* give different text.
CanonicalModKeyOrder ==
    canonA # None => ((canonA = canonB) <=> EqModKeyOrder(jsonA, jsonB))

\* Canonicalized: two different values whose nested objects hold the same
\* entries in different orders.
CanonicalModKeyOrderReached ==
    /\ canonA # None
    /\ jsonA # jsonB
    /\ EqModKeyOrder(jsonA, jsonB)
    /\ jsonA.t = "obj"
    /\ \E i \in 1..Len(jsonA.entries) :
          /\ jsonA.entries[i][2].t = "obj"
          /\ jsonA.entries[i][2] # get(jsonB, jsonA.entries[i][1])

\* ------------------------------------------------- record classification

\* str::replace('\\', "/")
RECURSIVE normalize_path(_)
normalize_path(path) ==
    IF path = "" THEN ""
    ELSE (IF Head(path) = "\\" THEN "/" ELSE Head(path)) \o normalize_path(Tail(path))

\* A path taken from "relative_path" only.
extract_relative_path(value, line_number) ==
    LET relative_path == get(value, "relative_path")
    IN IF relative_path # None /\ relative_path.t = "str"
       THEN Ok(normalize_path(relative_path.s))
       ELSE Err([kind |-> "MissingPath", line_number |-> line_number])

\* "relative_path" if it is a string, else "path" if it is a string.
extract_record_path(value, line_number) ==
    LET relative_path == get(value, "relative_path")
        path == get(value, "path")
    IN IF relative_path # None /\ relative_path.t = "str"
       THEN Ok(normalize_path(relative_path.s))
       ELSE IF path # None /\ path.t = "str"
       THEN Ok(normalize_path(path.s))
       ELSE Err([kind |-> "MissingPath", line_number |-> line_number])

extract_fingerprint(value) ==
    LET object == get(value, "fingerprint")
        is_str(field) == field # None /\ field.t = "str"
        fingerprint_id == get(object, "fingerprint_id")
        fingerprint_version == get(object, "fingerprint_version")
        matched == get(object, "matched")
        content_hash == get(object, "content_hash")
    IN IF object = None \/ object.t # "obj" THEN None
       ELSE IF ~is_str(fingerprint_id) \/ ~is_str(fingerprint_version)
               \/ matched = None \/ matched.t # "bool" THEN None
       ELSE [fingerprint_id |-> fingerprint_id.s,
             fingerprint_version |-> fingerprint_version.s,
             matched |-> matched.b,
             content_hash |-> IF is_str(content_hash) THEN content_hash ELSE None]

extract_warnings(value) ==
    LET warnings == get(value, "_warnings")
        str(warning, key) == LET field == get(warning, key)
                             IN IF field # None /\ field.t = "str" THEN field.s ELSE ""
        rendered(field) == IF field.t = "str" THEN field.s ELSE to_string(field)
        RECURSIVE collect(_, _)
        collect(entries, map) ==
            IF entries = <<>> THEN map
            ELSE collect(Tail(entries),
                         btree_insert(map, entries[1][1], rendered(entries[1][2])))
        detail(warning) == LET field == get(warning, "detail")
                           IN IF field # None /\ field.t = "obj"
                              THEN collect(field.entries, <<>>) ELSE <<>>
        objects == IF warnings # None /\ warnings.t = "arr"
                   THEN SelectSeq(warnings.items, LAMBDA w : w.t = "obj") ELSE <<>>
    IN [i \in 1..Len(objects) |->
          [tool |-> str(objects[i], "tool"), code |-> str(objects[i], "code"),
           message |-> str(objects[i], "message"), detail |-> detail(objects[i])]]

\* slice::sort_unstable_by(|l, r| l.path.cmp(&r.path)) without reordering.
sort_unstable_by_path_noop(v) == { v }

\* A sort by path that keeps one element of each path (sort, then dedup).
sort_dedup_by_path(v) ==
    LET first == { i \in 1..Len(v) : \A k \in 1..(i - 1) : v[k].path # v[i].path }
    IN { [i \in 1..Cardinality(first) |-> v[f[i]]] :
           f \in { g \in [1..Cardinality(first) -> first] :
                     \A i, j \in 1..Cardinality(first) :
                         i < j => str_lt(v[g[i]].path, v[g[j]].path) } }

\* slice::sort_unstable_by(|l, r| l.path.cmp(&r.path)): the elements in
\* ascending order of path; the order of elements with equal paths is not
\* specified, so every such arrangement is a possible result.
sort_unstable_by_path(v) ==
    { [i \in 1..Len(v) |-> v[p[i]]] :
        p \in { q \in Permutations(1..Len(v)) :
                  \A i, j \in 1..Len(v) :
                      i < j => ~str_lt(v[q[j]].path, v[q[i]].path) } }

\* The results classify_records can return for the records.
classify_records(recs) ==
    LET RECURSIVE loop(_, _, _)
        loop(i, members, skipped) ==
            IF i > Len(recs) THEN Ok(<<members, skipped>>)
            ELSE LET value == recs[i].value
                     line_number == recs[i].line_number
                     path == extract_record_path(value, line_number)
                     is_skipped == LET flag == get(value, "_skipped")
                                   IN flag # None /\ flag.t = "bool" /\ flag.b
                     bytes_hash == get(value, "bytes_hash")
                     size == get(value, "size")
                 IN IF "err" \in DOMAIN path THEN path
                    ELSE IF is_skipped
                    THEN loop(i + 1, members,
                              Append(skipped, [path |-> path.ok,
                                               warnings |-> extract_warnings(value)]))
                    ELSE IF bytes_hash = None \/ bytes_hash.t # "str"
                    THEN Err([kind |-> "MissingBytesHash", line_number |-> line_number])
                    ELSE IF size = None \/ size.t # "num" \/ size.n < 0
                    THEN Err([kind |-> "MissingSize", line_number |-> line_number])
                    ELSE loop(i + 1,
                              Append(members, [path |-> path.ok,
                                               bytes_hash |-> bytes_hash.s,
                                               size |-> size.n,
                                               fingerprint |-> extract_fingerprint(value)]),
                              skipped)
        collected == loop(1, <<>>, <<>>)
    IN IF "err" \in DOMAIN collected THEN { collected }
       ELSE { Ok([members |-> members, skipped |-> skipped,
                  skipped_count |-> Len(skipped), member_count |-> Len(members),
                  outcome |-> IF skipped = <<>> THEN "LockCreated" ELSE "LockPartial"]) :
                members \in sort_unstable_by_path(collected.ok[1]),
                skipped \in sort_unstable_by_path(collected.ok[2]) }

\* ------------------------------------- specification: classification

\* Longest input record sequence classified.
MaxRecords == 3

\* The record values classified: members (two with the same path and
\* different content, one whose path is written with a backslash), skipped
\* records (with and without a path, a bytes_hash and a size), and a record
\* without a size.
RecordValues ==
    { JObj(<< <<"relative_path", JStr("b")>>, <<"bytes_hash", JStr("sha256:x")>>,
              <<"size", JNum(1)>> >>),
      JObj(<< <<"relative_path", JStr("b")>>, <<"bytes_hash", JStr("sha256:y")>>,
              <<"size", JNum(2)>>,
              <<"fingerprint", JObj(<< <<"fingerprint_id", JStr("csv")>>,
                                       <<"fingerprint_version", JStr("v0")>>,
                                       <<"matched", JBool(TRUE)>> >>)>> >>),
      JObj(<< <<"path", JStr("a\\b")>>, <<"bytes_hash", JStr("sha256:x")>>,
              <<"size", JNum(1)>> >>),
      JObj(<< <<"_skipped", JBool(TRUE)>>, <<"relative_path", JStr("b")>>,
              <<"_warnings", JArr(<< JObj(<< <<"tool", JStr("hash")>>,
                                             <<"code", JStr("E_IO")>> >>) >>)>> >>),
      JObj(<< <<"_skipped", JBool(TRUE)>>, <<"path", JStr("a")>> >>),
      JObj(<< <<"_skipped", JBool(TRUE)>>, <<"bytes_hash", JStr("sha256:x")>>,
              <<"size", JNum(1)>> >>),
      JObj(<< <<"_skipped", JBool(TRUE)>>, <<"relative_path", JStr("c")>>,
              <<"bytes_hash", JStr("sha256:x")>> >>),
      JObj(<< <<"relative_path", JStr("c")>>, <<"bytes_hash", JStr("sha256:x")>> >>) }

\* read_jsonl_reader numbers the records by their line.
input_records(values) ==
    [i \in 1..Len(values) |-> [line_number |-> i, value |-> values[i]]]

InitClassify ==
    /\ records \in SeqsUpTo(RecordValues, MaxRecords)
    /\ permuted \in { [i \in 1..Len(records) |-> records[p[i]]] :
                        p \in Permutations(1..Len(records)) }
    /\ classA = None
    /\ classB = None
    /\ ledgerIdle /\ canonIdle /\ hashIdle /\ runIdle /\ callIdle

Classify ==
    /\ classA = None
    /\ classA' \in classify_records(input_records(records))
    /\ classB' \in classify_records(input_records(permuted))
    /\ UNCHANGED <<records, permuted, ledgerVars, procVars, canonVars, hashVars, runVars, callVars>>

NextClassify == Classify

SpecClassify == InitClassify /\ [][NextClassify]_vars

Classified == classA # None /\ "ok" \in DOMAIN classA /\ "ok" \in DOMAIN classB

Ascending(v) ==
    \A i, j \in 1..Len(v) : i < j => ~str_lt(v[j].path, v[i].path)

Paths(v) == [i \in 1..Len(v) |-> v[i].path]

SameElements(v, w) ==
    /\ Len(v) = Len(w)
    /\ \A x \in { v[i] : i \in 1..Len(v) } :
          Cardinality({ i \in 1..Len(v) : v[i] = x })
            = Cardinality({ i \in 1..Len(w) : w[i] = x })

DistinctPaths(v) == \A i, j \in 1..Len(v) : i # j => v[i].path # v[j].path

\* C10 as stated: members and skipped are ascending by normalized path and
\* are the same sequences for every permutation of the input records.
ClassifyPermutationIdentical ==
    Classified =>
        /\ Ascending(classA.ok.members) /\ Ascending(classA.ok.skipped)
        /\ classA.ok.members = classB.ok.members
        /\ classA.ok.skipped = classB.ok.skipped

\* C10 amended: members and skipped are ascending by normalized path; for
\* every permutation of the input records they hold the same elements with
\* the same sequence of paths, and they are the same sequences when no two
\* of their elements have the same normalized path.
ClassifyPermutationSorted ==
    Classified =>
        /\ Ascending(classA.ok.members) /\ Ascending(classA.ok.skipped)
        /\ SameElements(classA.ok.members, classB.ok.members)
        /\ SameElements(classA.ok.skipped, classB.ok.skipped)
        /\ Paths(classA.ok.members) = Paths(classB.ok.members)
        /\ Paths(classA.ok.skipped) = Paths(classB.ok.skipped)
        /\ DistinctPaths(classA.ok.members)
              => classA.ok.members = classB.ok.members
        /\ DistinctPaths(classA.ok.skipped)
              => classA.ok.skipped = classB.ok.skipped

\* Classified in two different orders: three records out of path order, a
\* backslash path among them, and two members of the same path.
ClassifyPermutationSortedReached ==
    /\ Classified
    /\ records # permuted
    /\ Len(classA.ok.members) = 3
    /\ ~DistinctPaths(classA.ok.members)
    /\ classA.ok.members[1].path = "a/b"
    /\ get(records[1], "relative_path") = JStr("b")

\* Whether the record value has _skipped == true, and whether it has a path.
SkippedValue(value) ==
    LET flag == get(value, "_skipped") IN flag # None /\ flag.t = "bool" /\ flag.b

HasPath(value) ==
    \/ get(value, "relative_path") # None /\ get(value, "relative_path").t = "str"
    \/ get(value, "path") # None /\ get(value, "path").t = "str"

SkippedLines == { i \in 1..Len(records) : SkippedValue(records[i]) }

\* C13 as stated: a record with _skipped == true never makes the
\* classification fail, whichever of bytes_hash, size, relative_path and
\* path it has, and every such record becomes a SkippedEntry.
SkippedNeverFails ==
    classA # None =>
        IF "err" \in DOMAIN classA
        THEN classA.err.line_number \notin SkippedLines
        ELSE Len(classA.ok.skipped) = Cardinality(SkippedLines)

\* C13 amended: a record with _skipped == true and a string relative_path
\* or path never makes the classification fail, whether or not it has a
\* bytes_hash and a size, and when the classification succeeds every
\* skipped record has become a SkippedEntry with its normalized path and
\* its warnings; a skipped record with neither path field fails the
\* classification with MissingPath like any other record without a path.
SkippedWithPathNeverFails ==
    classA # None =>
        IF "err" \in DOMAIN classA
        THEN LET line == classA.err.line_number
             IN /\ \A i \in 1..(line - 1) : HasPath(records[i])
                /\ line \in SkippedLines =>
                      (~HasPath(records[line]) /\ classA.err.kind = "MissingPath")
        ELSE /\ Len(classA.ok.skipped) = Cardinality(SkippedLines)
             /\ \A i \in SkippedLines :
                   \E k \in 1..Len(classA.ok.skipped) :
                      classA.ok.skipped[k]
                        = [path |-> extract_record_path(records[i], i).ok,
                           warnings |-> extract_warnings(records[i])]

\* A classification that succeeded on skipped records that have a
\* bytes_hash and no size, or a path and nothing else, next to a member.
SkippedWithPathNeverFailsReached ==
    /\ classA # None /\ "ok" \in DOMAIN classA
    /\ Len(classA.ok.skipped) = 2 /\ Len(classA.ok.members) = 1
    /\ \E i \in SkippedLines : get(records[i], "bytes_hash") # None
    /\ \E i \in SkippedLines : get(records[i], "relative_path") = None

\* C21: after classification member_count is the length of members and
\* skipped_count the length of skipped, and the two counts add up to the
\* number of input records: each record is in exactly one of the two.
CountsMatchLengths ==
    (classA # None /\ "ok" \in DOMAIN classA) =>
        /\ classA.ok.member_count = Len(classA.ok.members)
        /\ classA.ok.skipped_count = Len(classA.ok.skipped)
        /\ classA.ok.member_count + classA.ok.skipped_count = Len(records)
        /\ classA.ok.skipped_count = Cardinality(SkippedLines)
        /\ \A i \in 1..Len(records) :
              \E entry \in (IF i \in SkippedLines THEN Range(classA.ok.skipped)
                            ELSE Range(classA.ok.members)) :
                 entry.path = extract_record_path(records[i], i).ok

\* Three records classified, two members of the same path and a skipped one.
CountsMatchLengthsReached ==
    /\ classA # None /\ "ok" \in DOMAIN classA
    /\ classA.ok.member_count = 2 /\ classA.ok.skipped_count = 1
    /\ classA.ok.members[1].path = classA.ok.members[2].path

\* The members in input order, as classify_records collects them.
CollectedMembers ==
    LET kept == SelectSeq(records, LAMBDA value : ~SkippedValue(value))
    IN [i \in 1..Len(kept) |->
          [path |-> extract_record_path(kept[i], i).ok,
           bytes_hash |-> get(kept[i], "bytes_hash").s,
           size |-> get(kept[i], "size").n,
           fingerprint |-> extract_fingerprint(kept[i])]]

\* The skipped entries in input order, as classify_records collects them.
CollectedSkipped ==
    LET kept == SelectSeq(records, SkippedValue)
    IN [i \in 1..Len(kept) |->
          [path |-> extract_record_path(kept[i], i).ok,
           warnings |-> extract_warnings(kept[i])]]

InInputOrder(sorted, collected) ==
    \A i, k \in 1..Len(sorted) :
        (i < k /\ sorted[i].path = sorted[k].path) =>
            \E m, n \in 1..Len(collected) :
                m < n /\ collected[m] = sorted[i] /\ collected[n] = sorted[k]

\* C26: the sort of members and of skipped is stable: entries whose
\* normalized paths are equal (duplicates, or paths that differ only in \
\* and /) appear in the output in their input order.
SortIsStable ==
    (classA # None /\ "ok" \in DOMAIN classA) =>
        /\ InInputOrder(classA.ok.members, CollectedMembers)
        /\ InInputOrder(classA.ok.skipped, CollectedSkipped)

\* ------------------------------------------------------ the lock pipeline

ACCEPTED_RECORD_VERSIONS == { "vacuum.v0", "hash.v0", "fingerprint.v0" }
MISSING_HASH_SAMPLE_LIMIT == 5
MAX_SAMPLE_PATHS == 5
LOCK_VERSION == "lock.v0"
CARGO_PKG_VERSION == "0.1.0"

\* An iterator that is collected whole.
take_all(seq, n) == seq

\* Iterator::take(n).
Take(seq, n) == SubSeq(seq, 1, IF Len(seq) < n THEN Len(seq) ELSE n)

\* read_jsonl: the input is None (the file cannot be opened) or holds the
\* lines read, each the text of the line (<<>> for a line that is blank
\* after trim).
read_jsonl(input) ==
    LET RECURSIVE loop(_, _)
        loop(index, recs) ==
            IF index > Len(input.lines) THEN Ok(recs)
            ELSE LET value == from_str(input.lines[index])
                 IN IF input.lines[index] = <<>>
                    THEN Err([kind |-> "Parse", line |-> index,
                              error |-> "line is empty; expected one JSON value per line"])
                    ELSE IF value = None
                    THEN Err([kind |-> "Parse", line |-> index, error |-> "syntax error"])
                    ELSE loop(index + 1,
                              Append(recs, [line_number |-> index, value |-> value.ok]))
    IN IF input = None THEN Err([kind |-> "Io", error |-> "No such file or directory"])
       ELSE loop(1, <<>>)

\* A validation that looks at every bytes_hash before any version.
validate_records_hash_first(recs) ==
    LET str(value, key) == get(value, key) # None /\ get(value, key).t = "str"
        lacking == SelectSeq(recs, LAMBDA r :
                       /\ ~SkippedValue(r.value)
                       /\ \/ ~str(r.value, "bytes_hash")
                          \/ get(r.value, "bytes_hash").s \in {"", " "})
        bad == { i \in 1..Len(recs) :
                   \/ ~str(recs[i].value, "version")
                   \/ get(recs[i].value, "version").s \notin ACCEPTED_RECORD_VERSIONS }
    IN IF lacking # <<>>
       THEN Err([kind |-> "MissingHash", count |-> Len(lacking), sample_paths |-> <<>>])
       ELSE IF bad # {}
       THEN Err([kind |-> "BadVersion", version |-> None,
                 line |-> CHOOSE i \in bad : \A k \in bad : i <= k])
       ELSE Ok(TRUE)

validate_records(recs) ==
    LET as_str(field) == IF field # None /\ field.t = "str" THEN field ELSE None
        RECURSIVE blank(_)
        blank(string) == string = "" \/ (Head(string) = " " /\ blank(Tail(string)))
        is_skipped(value) == LET flag == get(value, "_skipped")
                             IN flag # None /\ flag.t = "bool" /\ flag.b
        has_non_empty_string_field(value, key) ==
            as_str(get(value, key)) # None /\ ~blank(get(value, key).s)
        path_for_missing_hash(value) ==
            LET field == IF get(value, "relative_path") # None
                         THEN get(value, "relative_path") ELSE get(value, "path")
            IN IF as_str(field) # None THEN field.s ELSE "<unknown>"
        RECURSIVE loop(_, _)
        loop(i, missing_hash_paths) ==
            IF i > Len(recs)
            THEN IF missing_hash_paths = <<>> THEN Ok(TRUE)
                 ELSE Err([kind |-> "MissingHash", count |-> Len(missing_hash_paths),
                           sample_paths |-> Take(missing_hash_paths,
                                                 MISSING_HASH_SAMPLE_LIMIT)])
            ELSE LET value == recs[i].value
                     version == as_str(get(value, "version"))
                 IN IF version = None \/ version.s \notin ACCEPTED_RECORD_VERSIONS
                    THEN Err([kind |-> "BadVersion", line |-> recs[i].line_number,
                              version |-> version])
                    ELSE IF is_skipped(value) THEN loop(i + 1, missing_hash_paths)
                    ELSE IF ~has_non_empty_string_field(value, "bytes_hash")
                    THEN loop(i + 1, Append(missing_hash_paths,
                                            path_for_missing_hash(value)))
                    ELSE loop(i + 1, missing_hash_paths)
    IN loop(1, <<>>)

\* RefusalEnvelope::to_json and verify_refusal_json: the envelope as sorted,
\* compact text.  A message is its format string; what is formatted into it
\* is in detail.
refusal_json(version, code, message, detail, next_command) ==
    to_string(sort_json_value(JObj(<<
        <<"version", JStr(version)>>,
        <<"outcome", JStr("REFUSAL")>>,
        <<"refusal", JObj(<< <<"code", JStr(code)>>,
                             <<"message", JStr(message)>>,
                             <<"detail", JObj(detail)>>,
                             <<"next_command", next_command>> >>)>> >>)))

bad_input_parse(line, error) ==
    refusal_json(LOCK_VERSION, "E_BAD_INPUT",
                 "invalid JSONL at line {line} - check upstream tool output",
                 << <<"line", JNum(line)>>, <<"error", JStr(error)>> >>, JNull)

\* A BTreeMap entry that is always written, whether or not the key is there.
entry_insert(map, key, value) == btree_insert(map, key, value)

\* BTreeMap::entry(key).or_insert_with(|| value): an occupied entry is kept.
or_insert_with(map, key, value) ==
    IF \E i \in 1..Len(map) : map[i][1] = key THEN map
    ELSE btree_insert(map, key, value)

\* merge_tool_versions: every string version of every record's tool_versions
\* object goes through or_insert_with, in input order; then "lock" does.
merge_tool_versions(recs, lock_version) ==
    LET or_insert(map, key, value) == or_insert_with(map, key, value)
        RECURSIVE tools(_, _)
        tools(entries, merged) ==
            IF entries = <<>> THEN merged
            ELSE tools(Tail(entries),
                       IF entries[1][2].t = "str"
                       THEN or_insert(merged, entries[1][1], entries[1][2].s)
                       ELSE merged)
        RECURSIVE loop(_, _)
        loop(i, merged) ==
            IF i > Len(recs) THEN merged
            ELSE LET tool_versions == get(recs[i].value, "tool_versions")
                 IN loop(i + 1,
                         IF tool_versions # None /\ tool_versions.t = "obj"
                         THEN tools(tool_versions.entries, merged) ELSE merged)
    IN or_insert(loop(1, <<>>), "lock", lock_version)

\* serde_json::to_value of a Lockfile: the fields in declaration order.  The
\* optional strings and lock_hash are held as JSON values.
lockfile_to_value(lockfile) ==
    LET strings(map) == JObj([i \in 1..Len(map) |-> <<map[i][1], JStr(map[i][2])>>])
        fingerprint(f) ==
            IF f = None THEN JNull
            ELSE JObj(<< <<"fingerprint_id", JStr(f.fingerprint_id)>>,
                         <<"fingerprint_version", JStr(f.fingerprint_version)>>,
                         <<"matched", JBool(f.matched)>>,
                         <<"content_hash", IF f.content_hash = None THEN JNull
                                           ELSE f.content_hash>> >>)
        member(m) == JObj(<< <<"path", JStr(m.path)>>,
                             <<"bytes_hash", JStr(m.bytes_hash)>>,
                             <<"size", JNum(m.size)>>,
                             <<"fingerprint", fingerprint(m.fingerprint)>> >>)
        warning(w) == JObj(<< <<"tool", JStr(w.tool)>>, <<"code", JStr(w.code)>>,
                              <<"message", JStr(w.message)>>,
                              <<"detail", strings(w.detail)>> >>)
        skipped(e) == JObj(<< <<"path", JStr(e.path)>>,
                              <<"warnings",
                                JArr([i \in 1..Len(e.warnings) |-> warning(e.warnings[i])])>> >>)
    IN JObj(<< <<"version", JStr(lockfile.version)>>,
               <<"lock_hash", lockfile.lock_hash>>,
               <<"dataset_id", lockfile.dataset_id>>,
               <<"as_of", lockfile.as_of>>,
               <<"note", lockfile.note>>,
               <<"created", JStr(lockfile.created)>>,
               <<"tool_versions", strings(lockfile.tool_versions)>>,
               <<"profiles", JArr(lockfile.profiles)>>,
               <<"skipped",
                 JArr([i \in 1..Len(lockfile.skipped) |-> skipped(lockfile.skipped[i])])>>,
               <<"members",
                 JArr([i \in 1..Len(lockfile.members) |-> member(lockfile.members[i])])>>,
               <<"skipped_count", JNum(lockfile.skipped_count)>>,
               <<"member_count", JNum(lockfile.member_count)>> >>)

compute_lock_hash(lockfile) ==
    sha256(to_canonical_json(
        lockfile_to_value([lockfile EXCEPT !.lock_hash = JStr("")])))

render_lockfile(lockfile) ==
    [outcome |-> IF lockfile.skipped = <<>> THEN "LockCreated" ELSE "LockPartial",
     json |-> to_canonical_json(lockfile_to_value(lockfile))]

\* verify_lock_hash_from_json that compares with the hash of the text read.
verify_lock_hash_from_json_unblanked(json) ==
    LET value == from_str(json)
        lock_hash == get(value.ok, "lock_hash")
    IN IF value = None THEN None
       ELSE Ok((IF lock_hash # None /\ lock_hash.t = "str" THEN lock_hash ELSE JStr(""))
               = sha256(to_canonical_json(value.ok)))

verify_lock_hash_from_json(json) ==
    LET value == from_str(json)
        lock_hash == get(value.ok, "lock_hash")
        stored_hash == IF lock_hash # None /\ lock_hash.t = "str"
                       THEN lock_hash ELSE JStr("")
        blanked == IF value.ok.t = "obj"
                   THEN JObj(map_insert(value.ok.entries, "lock_hash", JStr("")))
                   ELSE value.ok
    IN IF value = None THEN None
       ELSE Ok(stored_hash = sha256(to_canonical_json(blanked)))

\* The lockfiles orchestrate_from_read_result can assemble from the records
\* (Ok), or the refusal it returns (Err).  cli holds dataset_id, as_of and
\* note; created is what current_created_timestamp returns.
assemble(cli, recs, created) ==
    LET validation == validate_records(recs)
        classified == classify_records(recs)
        refused(error) ==
            IF error.kind = "BadVersion"
            THEN refusal_json(LOCK_VERSION, "E_BAD_INPUT",
                    "unknown record version {version} at line {line} - check upstream tool output",
                    << <<"line", JNum(error.line)>>,
                       <<"version", IF error.version = None THEN JStr("<missing>")
                                    ELSE error.version>> >>, JNull)
            ELSE IF error.kind = "MissingHash"
            THEN refusal_json(LOCK_VERSION, "E_MISSING_HASH",
                    IF error.count = 1 THEN "{count} record lacks bytes_hash - run hash first"
                    ELSE "{count} records lack bytes_hash - run hash first",
                    << <<"count", JNum(error.count)>>,
                       <<"sample_paths",
                         JArr(LET sample == Take(error.sample_paths, MAX_SAMPLE_PATHS)
                              IN [i \in 1..Len(sample) |-> JStr(sample[i])])>> >>,
                    JStr("vacuum <path> | hash | lock"))
            ELSE bad_input_parse(error.line_number,
                    CASE error.kind = "MissingPath" -> "missing path/relative_path"
                      [] error.kind = "MissingBytesHash" -> "missing bytes_hash"
                      [] error.kind = "MissingSize" -> "missing size")
        lockfile(classification) ==
            [version |-> LOCK_VERSION, lock_hash |-> JStr(""),
             dataset_id |-> cli.dataset_id, as_of |-> cli.as_of, note |-> cli.note,
             created |-> created,
             tool_versions |-> merge_tool_versions(recs, CARGO_PKG_VERSION),
             profiles |-> <<>>,
             skipped |-> classification.skipped, members |-> classification.members,
             skipped_count |-> classification.skipped_count,
             member_count |-> classification.member_count]
    IN IF recs = <<>>
       THEN { Err(refusal_json(LOCK_VERSION, "E_EMPTY",
                               "no input records - run vacuum first", <<>>,
                               JStr("vacuum <path> | hash | lock"))) }
       ELSE IF "err" \in DOMAIN validation THEN { Err(refused(validation.err)) }
       ELSE { IF "err" \in DOMAIN c THEN Err(refused(c.err))
              ELSE Ok([lockfile(c.ok) EXCEPT !.lock_hash = compute_lock_hash(lockfile(c.ok))]) :
                c \in classified }

\* ------------------------------------------ specification: the self-hash

\* Most lines in an input file.
MaxLines == 2

\* The records of the input files: two members (one with a backslash path
\* and a fingerprint), a skipped record, and records without bytes_hash, of
\* an unknown version, without size and without a path.
MemberRecords ==
    << JObj(<< <<"version", JStr("hash.v0")>>, <<"relative_path", JStr("b")>>,
               <<"bytes_hash", JStr("sha256:x")>>, <<"size", JNum(1)>>,
               <<"tool_versions", JObj(<< <<"hash", JStr("0.1.0")>> >>)>> >>),
       JObj(<< <<"version", JStr("fingerprint.v0")>>, <<"path", JStr("a\\b")>>,
               <<"bytes_hash", JStr("blake3:y")>>, <<"size", JNum(2)>>,
               <<"tool_versions", JObj(<< <<"hash", JStr("0.2.0")>>,
                                          <<"fingerprint", JStr("0.1.0")>> >>)>>,
               <<"fingerprint", JObj(<< <<"fingerprint_id", JStr("csv")>>,
                                        <<"fingerprint_version", JStr("v0")>>,
                                        <<"matched", JBool(TRUE)>> >>)>> >>) >>

LockRecordValues ==
    { MemberRecords[1], MemberRecords[2],
      JObj(<< <<"version", JStr("vacuum.v0")>>, <<"_skipped", JBool(TRUE)>>,
              <<"path", JStr("a")>>,
              <<"_warnings", JArr(<< JObj(<< <<"tool", JStr("hash")>>,
                                             <<"code", JStr("E_IO")>>,
                                             <<"detail", JObj(<< <<"errno", JStr("13")>> >>)>>
                                          >>) >>)>> >>),
      JObj(<< <<"version", JStr("hash.v0")>>, <<"path", JStr("c")>>,
              <<"size", JNum(1)>> >>),
      JObj(<< <<"version", JStr("nope.v0")>>, <<"path", JStr("c")>>,
              <<"bytes_hash", JStr("sha256:x")>>, <<"size", JNum(1)>> >>),
      JObj(<< <<"version", JStr("hash.v0")>>, <<"path", JStr("c")>>,
              <<"bytes_hash", JStr("sha256:x")>> >>),
      JObj(<< <<"version", JStr("hash.v0")>>, <<"bytes_hash", JStr("sha256:x")>>,
              <<"size", JNum(1)>> >>) }

\* The input files: unreadable, or lines that are a record, blank, or not JSON.
LockInputs ==
    { None } \cup
    { [lines |-> lines] :
        lines \in SeqsUpTo({ to_string(value) : value \in LockRecordValues }
                             \cup { <<>>, << Tok("{") >> }, MaxLines) }

CliOptions ==
    { [dataset_id |-> JNull, as_of |-> JNull, note |-> JNull],
      [dataset_id |-> JStr("ds"), as_of |-> JStr("2026-01-01"), note |-> JStr("n")] }

Created == "2026-02-24T00:00:00Z"

\* The lockfiles the lock pipeline assembles from the input files.
AssembledLockfiles ==
    UNION { LET read == read_jsonl(input)
            IN IF "err" \in DOMAIN read THEN {}
               ELSE { assembled.ok : assembled \in
                        { a \in assemble(cli, read.ok, Created) : "ok" \in DOMAIN a } } :
            input \in LockInputs, cli \in CliOptions }

\* The fields of a value: the paths of keys and indices that lead to them.
RECURSIVE FieldPaths(_)
FieldPaths(value) ==
    LET below(step, child) == { <<step>> } \cup { <<step>> \o p : p \in FieldPaths(child) }
    IN CASE value.t = "obj" ->
              UNION { below([key |-> value.entries[i][1]], value.entries[i][2]) :
                        i \in 1..Len(value.entries) }
         [] value.t = "arr" ->
              UNION { below([index |-> i], value.items[i]) : i \in 1..Len(value.items) }
         [] OTHER -> {}

RECURSIVE field_at(_, _)
field_at(value, path) ==
    IF path = <<>> THEN value
    ELSE IF "key" \in DOMAIN path[1]
         THEN field_at(get(value, path[1].key), Tail(path))
         ELSE field_at(value.items[path[1].index], Tail(path))

RECURSIVE set_field(_, _, _)
set_field(value, path, new) ==
    IF path = <<>> THEN new
    ELSE IF "key" \in DOMAIN path[1]
         THEN JObj(map_insert(value.entries, path[1].key,
                              set_field(get(value, path[1].key), Tail(path), new)))
         ELSE JArr([value.items EXCEPT
                      ![path[1].index] = set_field(value.items[path[1].index],
                                                   Tail(path), new)])

TamperValues == { JNull, JNum(999), JStr("tampered") }

InitHash ==
    /\ lockJson \in { render_lockfile(lockfile).json : lockfile \in AssembledLockfiles }
    /\ tampered = FALSE
    /\ verdict = None
    /\ ledgerIdle /\ canonIdle /\ classifyIdle /\ runIdle /\ callIdle

\* Someone changes the value of one field other than lock_hash.
Tamper ==
    /\ ~tampered
    /\ verdict = None
    /\ \E path \in FieldPaths(from_str(lockJson).ok) \ { << [key |-> "lock_hash"] >> } :
         \E new \in TamperValues \ { field_at(from_str(lockJson).ok, path) } :
            lockJson' = to_string(set_field(from_str(lockJson).ok, path, new))
    /\ tampered' = TRUE
    /\ UNCHANGED <<verdict, ledgerVars, procVars, canonVars, classifyVars, runVars, callVars>>

VerifyHash ==
    /\ verdict = None
    /\ verdict' = verify_lock_hash_from_json(lockJson)
    /\ UNCHANGED <<lockJson, tampered, ledgerVars, procVars, canonVars, classifyVars, runVars, callVars>>

NextHash == Tamper \/ VerifyHash

SpecHash == InitHash /\ [][NextHash]_vars

\* C8: the rendered text of every lockfile the lock pipeline assembles
\* verifies, and it does not verify once the value of any field other than
\* lock_hash, at the top level or nested, was changed.
SelfHashDetectsTampering ==
    verdict # None => verdict = Ok(~tampered)

\* A lockfile with a member and a skipped entry was tampered with inside
\* the member and verified.
SelfHashDetectsTamperingReached ==
    /\ verdict # None
    /\ tampered
    /\ LET members == get(from_str(lockJson).ok, "members")
           skipped == get(from_str(lockJson).ok, "skipped")
       IN /\ members.t = "arr" /\ Len(members.items) = 1
          /\ skipped.t = "arr" /\ Len(skipped.items) = 1
          /\ get(members.items[1], "size") = JNum(999)

\* -------------------------------------------------------- lock verify

VERIFY_VERSION == "lock-verify.v0"
SUPPORTED_VERSIONS == { "lock.v0" }
SUPPORTED_ALGORITHMS == { "sha256", "blake3" }

\* str::split(sep).next(): the text before the first sep.
RECURSIVE split_first(_, _)
split_first(string, sep) ==
    IF string = "" \/ Head(string) = sep THEN ""
    ELSE Head(string) \o split_first(Tail(string), sep)

\* string.split(sep).any(|seg| seg == "..")
has_dotdot_segment(string, sep) ==
    LET RECURSIVE scan(_, _)
        scan(rest, seg) ==
            IF rest = "" THEN seg = ".."
            ELSE IF Head(rest) = sep THEN seg = ".." \/ scan(Tail(rest), "")
            ELSE scan(Tail(rest), seg \o Head(rest))
    IN scan(string, "")

as_str_or(field, default) ==
    IF field # None /\ field.t = "str" /\ "s" \in DOMAIN field THEN field.s ELSE default

\* validate_lockfile_json: Ok with the parsed value, or Err with the refusal
\* text to print.
validate_lockfile_json(json) ==
    LET parsed == from_str(json)
        value == parsed.ok
        refusal(code, message, detail) ==
            Err(refusal_json(VERIFY_VERSION, code, message, detail, JNull))
        missing == SelectSeq(<< "version", "lock_hash", "members" >>,
                             LAMBDA field : get(value, field) = None)
        version == as_str_or(get(value, "version"), "")
        members == get(value, "members")
        RECURSIVE check(_)
        check(i) ==
            IF i > Len(members.items) THEN Ok(value)
            ELSE LET member == members.items[i]
                     path == as_str_or(get(member, "path"), "")
                     hash == get(member, "bytes_hash")
                     member_detail == << <<"member_index", JNum(i - 1)>>,
                                         <<"member_path", JStr(path)>> >>
                 IN IF path # "" /\ Head(path) \in { "/", "\\" }
                    THEN refusal("E_BAD_LOCKFILE", "member path is absolute: {member_path}",
                                 member_detail)
                    ELSE IF has_dotdot_segment(path, "/") \/ has_dotdot_segment(path, "\\")
                    THEN refusal("E_BAD_LOCKFILE",
                                 "member path contains traversal: {member_path}",
                                 member_detail)
                    ELSE IF /\ hash # None /\ hash.t = "str"
                            /\ split_first(as_str_or(hash, "sha256"), ":")
                                  \notin SUPPORTED_ALGORITHMS
                    THEN refusal("E_UNKNOWN_ALGORITHM",
                                 "unrecognized hash algorithm: {algorithm}",
                                 << <<"member_path", JStr(path)>>,
                                    <<"algorithm",
                                      JStr(split_first(as_str_or(hash, "sha256"), ":"))>> >>)
                    ELSE check(i + 1)
    IN IF parsed = None
       THEN refusal("E_BAD_LOCKFILE", "malformed lockfile JSON - {error}",
                    << <<"error", JStr("syntax error")>> >>)
       ELSE IF missing # <<>>
       THEN refusal("E_BAD_LOCKFILE", "lockfile missing required fields",
                    << <<"missing_fields",
                         JArr([i \in 1..Len(missing) |-> JStr(missing[i])])>> >>)
       ELSE IF version \notin SUPPORTED_VERSIONS
       THEN refusal("E_UNSUPPORTED_VERSION", "unsupported lockfile version: {version}",
                    << <<"version", JStr(version)>> >>)
       ELSE IF members.t = "arr" THEN check(1)
       ELSE Ok(value)

\* self_hash::verify_lock_hash_detail: the stored and the recomputed
\* lock_hash of the text and whether they are equal.
verify_lock_hash_detail(json) ==
    LET value == from_str(json)
        lock_hash == get(value.ok, "lock_hash")
        stored == IF lock_hash # None /\ lock_hash.t = "str" THEN lock_hash ELSE JStr("")
        blanked == IF value.ok.t = "obj"
                   THEN JObj(map_insert(value.ok.entries, "lock_hash", JStr("")))
                   ELSE value.ok
        computed == sha256(to_canonical_json(blanked))
    IN IF value = None THEN None
       ELSE Ok([stored |-> stored, computed |-> computed, valid |-> stored = computed])

\* A member check that opens and hashes the file before it compares sizes.
check_member_hash_first(member_path, expected_hash, expected_size, file) ==
    LET prefix == split_first(expected_hash, ":")
        failure(reason, actual, actual_size) ==
            [failure |-> JObj(<< <<"path", JStr(member_path)>>, <<"reason", JStr(reason)>>,
                                 <<"expected", JStr(expected_hash)>>, <<"actual", actual>>,
                                 <<"expected_size", expected_size>>,
                                 <<"actual_size", actual_size>> >>)]
        skip == [skip |-> JObj(<< <<"path", JStr(member_path)>>,
                                  <<"reason", JStr("IO_ERROR")>>,
                                  <<"detail", JStr("failed")>> >>)]
    IN IF file = None \/ ~file.exists THEN failure("MISSING", JNull, JNull)
       ELSE IF ~file.stat_ok \/ ~file.read_ok \/ prefix \notin { "sha256", "blake3" }
       THEN skip
       ELSE IF prefix \o ":" \o file.hex # expected_hash
       THEN failure("HASH_MISMATCH", JStr(prefix \o ":" \o file.hex), JNum(file.size))
       ELSE IF expected_size # JNull /\ file.size # expected_size.n
       THEN failure("SIZE_MISMATCH", JNull, JNum(file.size))
       ELSE [verified |-> TRUE]

\* The body of the loop of verify_members for one member: the failure or the
\* skip it pushes (as the JSON object it serializes to), or verified.  file
\* is what the root holds at the member's path (None: nothing):
\* [exists, stat_ok, size, read_ok, hex], what Path::exists and fs::metadata
\* return, the size, whether the file can be opened and read, and the hex
\* digest of its content.
check_member(member_path, expected_hash, expected_size, file) ==
    LET prefix == split_first(expected_hash, ":")
        failure(reason, actual, exp_size, actual_size) ==
            JObj(<< <<"path", JStr(member_path)>>, <<"reason", JStr(reason)>>,
                    <<"expected", JStr(expected_hash)>>, <<"actual", actual>>,
                    <<"expected_size", exp_size>>,
                    <<"actual_size", actual_size>> >>)
        skip(detail) ==
            JObj(<< <<"path", JStr(member_path)>>, <<"reason", JStr("IO_ERROR")>>,
                    <<"detail", JStr(detail)>> >>)
    IN IF file = None \/ ~file.exists
       THEN [failure |-> failure("MISSING", JNull, expected_size, JNull)]
       ELSE IF ~file.stat_ok
       THEN [skip |-> skip("metadata failed")]
       ELSE IF expected_size # JNull /\ file.size # expected_size.n
       THEN [failure |-> failure("SIZE_MISMATCH", JNull, expected_size,
                                 JNum(file.size))]
       ELSE IF ~file.read_ok
       THEN [skip |-> skip("read failed")]
       ELSE IF prefix \notin { "sha256", "blake3" }
       THEN [skip |-> skip("unsupported algorithm: {prefix}")]
       ELSE IF prefix \o ":" \o file.hex = expected_hash
       THEN [verified |-> TRUE]
       ELSE [failure |-> failure("HASH_MISMATCH",
                                 JStr(prefix \o ":" \o file.hex),
                                 expected_size, JNum(file.size))]

\* A member verification that stops at the first failure.
verify_members_short_circuit(lockfile_json, root) ==
    LET members == get(lockfile_json, "members").items
        results == [i \in 1..Len(members) |->
                      check_member(as_str_or(get(members[i], "path"), ""),
                                   as_str_or(get(members[i], "bytes_hash"), ""),
                                   IF get(members[i], "size") = None THEN JNull
                                   ELSE get(members[i], "size"),
                                   map_get(root.files, get(members[i], "path").s))]
        failing == { i \in 1..Len(members) : "failure" \in DOMAIN results[i] }
        examined == IF failing = {} THEN results
                    ELSE SubSeq(results, 1, CHOOSE i \in failing : \A k \in failing : i <= k)
        failures == SelectSeq(examined, LAMBDA r : "failure" \in DOMAIN r)
        skips == SelectSeq(examined, LAMBDA r : "skip" \in DOMAIN r)
    IN [root |-> root.path, checked |-> Len(members),
        verified |-> Len(SelectSeq(examined, LAMBDA r : "verified" \in DOMAIN r)),
        failed |-> Len(failures), skipped |-> Len(skips),
        failures |-> [i \in 1..Len(failures) |-> failures[i].failure],
        skips |-> [i \in 1..Len(skips) |-> skips[i].skip]]

\* verify_members.  root holds its path and its files, a map from relative
\* path to what check_member is handed.
verify_members(lockfile_json, root) ==
    LET listed == get(lockfile_json, "members")
        members == IF listed # None /\ listed.t = "arr" THEN listed.items ELSE <<>>
        RECURSIVE loop(_, _, _, _)
        loop(i, failures, skips, verified) ==
            IF i > Len(members)
            THEN [root |-> root.path, checked |-> Len(members), verified |-> verified,
                  failed |-> Len(failures), skipped |-> Len(skips),
                  failures |-> failures, skips |-> skips]
            ELSE LET member_path == as_str_or(get(members[i], "path"), "")
                     expected_hash == as_str_or(get(members[i], "bytes_hash"), "")
                     size == get(members[i], "size")
                     expected_size == IF size # None /\ size.t = "num" /\ size.n >= 0
                                      THEN size ELSE JNull
                     checked == check_member(member_path, expected_hash, expected_size,
                                             map_get(root.files, member_path))
                 IN loop(i + 1,
                         IF "failure" \in DOMAIN checked
                         THEN Append(failures, checked.failure) ELSE failures,
                         IF "skip" \in DOMAIN checked
                         THEN Append(skips, checked.skip) ELSE skips,
                         IF "verified" \in DOMAIN checked THEN verified + 1 ELSE verified)
    IN loop(1, <<>>, <<>>, 0)

\* An outcome that takes every skip for a failure, --strict or not.
members_outcome_always_strict(members_result, strict) ==
    IF members_result.failed > 0 \/ members_result.skipped > 0
    THEN << "VERIFY_FAILED", 1 >> ELSE << "VERIFY_OK", 0 >>

\* members_outcome: (outcome, exit_code).
members_outcome(members_result, strict) ==
    IF members_result.failed > 0 THEN << "VERIFY_FAILED", 1 >>
    ELSE IF members_result.skipped > 0
         THEN IF strict THEN << "VERIFY_FAILED", 1 >> ELSE << "VERIFY_PARTIAL", 1 >>
    ELSE << "VERIFY_OK", 0 >>

\* ------------------------------------------------- a run and its witness

\* exit_code that returns 0 for a partial lock.
DomainOutcome_exit_code_partial_ok(outcome) ==
    CASE outcome = "LockCreated" -> 0
      [] outcome = "LockPartial" -> 0
      [] outcome = "Refusal" -> 2

DomainOutcome_exit_code(outcome) ==
    CASE outcome = "LockCreated" -> 0
      [] outcome = "LockPartial" -> 1
      [] outcome = "Refusal" -> 2

\* What run_lock can print for the input: the outcome and the payload.
orchestrate(cli, input, created) ==
    LET read == read_jsonl(input)
    IN IF "err" \in DOMAIN read
       THEN { [outcome |-> "Refusal",
               payload_json |-> bad_input_parse(IF read.err.kind = "Parse"
                                                THEN read.err.line ELSE 0,
                                                read.err.error)] }
       ELSE { IF "err" \in DOMAIN assembled
              THEN [outcome |-> "Refusal", payload_json |-> assembled.err]
              ELSE [outcome |-> render_lockfile(assembled.ok).outcome,
                    payload_json |-> render_lockfile(assembled.ok).json] :
                assembled \in assemble(cli, read.ok, created) }

\* Where a call of append_witness_record_to fails, if it does: creating the
\* directory or opening the file, taking the lock, writing the line (part
\* of it is written), or releasing the lock.
WitnessFaults == { "none", "open", "lock", "write", "unlock" }

\* The mutant of append_witness_record_to used by LedgerAppendOnly: the file
\* is opened with truncate(true).
append_witness_record_to_truncating(ledger, outcome, exit_code, output_bytes, fault) ==
    [ledger |-> [exists |-> TRUE,
                 bytes |-> << witness_record(outcome, exit_code, blake3(output_bytes),
                                             None), NL >>],
     result |-> "Ok"]

\* append_witness_record_to as one step on the ledger [exists, bytes].
append_witness_record_to(ledger, outcome, exit_code, output_bytes, fault) ==
    LET record == witness_record(outcome, exit_code, blake3(output_bytes),
                                 read_last_record_id(ledger.bytes))
    IN CASE fault = "open" -> [ledger |-> ledger, result |-> "Err"]
         [] fault = "lock" ->
                [ledger |-> [ledger EXCEPT !.exists = TRUE], result |-> "Err"]
         [] fault = "write" ->
                [ledger |-> [exists |-> TRUE, bytes |-> Append(ledger.bytes, Torn)],
                 result |-> "Err"]
         [] fault = "unlock" ->
                [ledger |-> [exists |-> TRUE, bytes |-> ledger.bytes \o << record, NL >>],
                 result |-> "Err"]
         [] fault = "none" ->
                [ledger |-> [exists |-> TRUE, bytes |-> ledger.bytes \o << record, NL >>],
                 result |-> "Ok"]

\* append_witness_record: one call of append_witness_record_to, and a
\* warning on stderr when it fails.  Returns the ledger and the events.
append_witness_record(ledger, outcome, exit_code, output_bytes, fault) ==
    LET appended == append_witness_record_to(ledger, outcome, exit_code,
                                             output_bytes, fault)
        event == [ev |-> "append", outcome |-> outcome, exit_code |-> exit_code,
                  result |-> appended.result]
    IN [ledger |-> appended.ledger,
        events |-> IF appended.result = "Err"
                   THEN << event, [ev |-> "eprintln"] >> ELSE << event >>]

\* The lock side's call, witness::append_witness_record(outcome, bytes,
\* params): the DomainOutcome is recorded under its wire name with its exit
\* code.
append_witness_record_for_outcome(ledger, outcome, output_bytes, fault) ==
    append_witness_record(ledger,
                          CASE outcome = "LockCreated" -> "LOCK_CREATED"
                            [] outcome = "LockPartial" -> "LOCK_PARTIAL"
                            [] outcome = "Refusal" -> "REFUSAL",
                          DomainOutcome_exit_code(outcome), output_bytes, fault)

\* What a run leaves behind: the exit code, what happened in order (the
\* print on stdout, the append call, the warning on stderr) and the ledger.
Finished(outcome, exit_code, payload, emitted) ==
    [outcome |-> outcome, exit_code |-> exit_code,
     events |-> << [ev |-> "print", bytes |-> payload] >> \o emitted.events,
     ledger |-> emitted.ledger]

\* run_lock that gives up with exit code 2 when the witness append fails.
run_lock_witness_fatal(cli, created, ledger, fault) ==
    { LET emitted == IF ~cli.no_witness
                     THEN append_witness_record_for_outcome(ledger, o.outcome,
                                                            o.payload_json, fault)
                     ELSE [ledger |-> ledger, events |-> <<>>]
      IN Finished(o.outcome,
                  IF Len(emitted.events) > 1 THEN 2
                  ELSE DomainOutcome_exit_code(o.outcome),
                  o.payload_json, emitted) :
        o \in orchestrate(cli.options, cli.input, created) }

\* run_lock: the runs the command line can make (the order of members with
\* equal paths is not fixed by the sort).
run_lock(cli, created, ledger, fault) ==
    { LET emitted == IF ~cli.no_witness
                     THEN append_witness_record_for_outcome(ledger, o.outcome,
                                                            o.payload_json, fault)
                     ELSE [ledger |-> ledger, events |-> <<>>]
      IN Finished(o.outcome, DomainOutcome_exit_code(o.outcome), o.payload_json,
                  emitted) :
        o \in orchestrate(cli.options, cli.input, created) }

\* emit_witness that appends also under --no-witness.
emit_witness_always(args, ledger, exit_code, outcome, output_bytes, fault) ==
    append_witness_record(ledger, outcome, exit_code, output_bytes, fault)

\* emit_witness that records exit code 0 whatever the run returns.
emit_witness_exit_zero(args, ledger, exit_code, outcome, output_bytes, fault) ==
    IF args.no_witness THEN [ledger |-> ledger, events |-> <<>>]
    ELSE append_witness_record(ledger, outcome, 0, output_bytes, fault)

emit_witness(args, ledger, exit_code, outcome, output_bytes, fault) ==
    IF args.no_witness THEN [ledger |-> ledger, events |-> <<>>]
    ELSE append_witness_record(ledger, outcome, exit_code, output_bytes, fault)

\* Step 5 that verifies the members whenever --root is given, also when the
\* self-hash is invalid.
verify_levels_members_first(valid, lockfile_value, root, strict) ==
    IF root # None
    THEN LET members_result == verify_members(lockfile_value, root)
             level2 == members_outcome(members_result, strict)
         IN [members |-> members_result,
             outcome |-> IF valid THEN level2[1] ELSE "VERIFY_FAILED",
             exit_code |-> IF valid THEN level2[2] ELSE 1]
    ELSE IF ~valid
    THEN [members |-> None, outcome |-> "VERIFY_FAILED", exit_code |-> 1]
    ELSE [members |-> None, outcome |-> "VERIFY_OK", exit_code |-> 0]

\* Step 5 of run_verify: (members_value, outcome, exit_code).
verify_levels(valid, lockfile_value, root, strict) ==
    IF ~valid
    THEN [members |-> None, outcome |-> "VERIFY_FAILED", exit_code |-> 1]
    ELSE IF root # None
    THEN LET members_result == verify_members(lockfile_value, root)
             level2 == members_outcome(members_result, strict)
         IN [members |-> members_result, outcome |-> level2[1],
             exit_code |-> level2[2]]
    ELSE [members |-> None, outcome |-> "VERIFY_OK", exit_code |-> 0]

\* output::render_human: the report text, a function of the sorted value.
render_human(sorted) == << [k |-> "human", of |-> sorted] >>

\* Steps 6 to 8 of run_verify: the VerifyResult of the two levels, and its
\* text in the format asked for.
VerifyResult(args, lock_hash_result, level) ==
    LET to_value(members) ==
            IF members = None THEN JNull
            ELSE JObj(<< <<"root", JStr(members.root)>>,
                         <<"checked", JNum(members.checked)>>,
                         <<"verified", JNum(members.verified)>>,
                         <<"failed", JNum(members.failed)>>,
                         <<"skipped", JNum(members.skipped)>>,
                         <<"failures", JArr(members.failures)>>,
                         <<"skips", JArr(members.skips)>> >>)
        sort_value(value) ==
            IF args.json THEN to_string(sort_json_value(value))
            ELSE render_human(sort_json_value(value))
    IN [outcome |-> level.outcome, exit_code |-> level.exit_code,
        payload |-> sort_value(JObj(<<
            <<"version", JStr(VERIFY_VERSION)>>,
            <<"outcome", JStr(level.outcome)>>,
            <<"lockfile", JStr(args.lockfile_path)>>,
            <<"lock_hash", JObj(<< <<"stored", lock_hash_result.stored>>,
                                   <<"computed", lock_hash_result.computed>>,
                                   <<"valid", JBool(lock_hash_result.valid)>> >>)>>,
            <<"members", to_value(level.members)>>,
            <<"tool_versions", JObj(<< <<"lock", JStr(CARGO_PKG_VERSION)>> >>)>> >>))]

\* Steps 2 to 8 with Level 1 decided before --root is looked at.
verify_text_level1_first(args, validation, detail) ==
    IF "err" \in DOMAIN validation
    THEN [outcome |-> "REFUSAL", exit_code |-> 2, payload |-> validation.err]
    ELSE IF ~detail.ok.valid
    THEN VerifyResult(args, detail.ok,
                      verify_levels(FALSE, from_str(args.lockfile.text).ok,
                                    args.root, args.strict))
    ELSE IF args.root # None /\ ~args.root.is_dir
    THEN [outcome |-> "REFUSAL", exit_code |-> 2,
          payload |-> refusal_json(VERIFY_VERSION, "E_ROOT_NOT_FOUND",
                                   "root directory not found: {root}",
                                   << <<"root", JStr(args.root.path)>> >>, JNull)]
    ELSE VerifyResult(args, detail.ok,
                      verify_levels(TRUE, from_str(args.lockfile.text).ok,
                                    args.root, args.strict))

\* Steps 2 to 8 of run_verify, for the text read, what validation says of it
\* and what Level 1 says of it: (outcome, exit_code, payload).
verify_text(args, validation, detail) ==
    LET refusal(code, message, refusal_detail) ==
            [outcome |-> "REFUSAL", exit_code |-> 2,
             payload |-> refusal_json(VERIFY_VERSION, code, message, refusal_detail,
                                      JNull)]
    IN IF "err" \in DOMAIN validation
       THEN [outcome |-> "REFUSAL", exit_code |-> 2, payload |-> validation.err]
       ELSE IF args.root # None /\ ~args.root.is_dir
       THEN refusal("E_ROOT_NOT_FOUND", "root directory not found: {root}",
                    << <<"root", JStr(args.root.path)>> >>)
       ELSE IF detail = None
       THEN refusal("E_BAD_LOCKFILE", "malformed lockfile JSON - {error}",
                    << <<"error", JStr("syntax error")>> >>)
       ELSE VerifyResult(args, detail.ok,
                         verify_levels(detail.ok.valid, from_str(args.lockfile.text).ok,
                                       args.root, args.strict))

\* run_verify: read, validate, check --root, Level 1, Level 2, print, witness.
\* args.lockfile is None when the file cannot be read.
run_verify(args, ledger, fault) ==
    LET finish(done) ==
            Finished(done.outcome, done.exit_code, done.payload,
                     emit_witness(args, ledger, done.exit_code, done.outcome,
                                  done.payload, fault))
    IN IF args.lockfile = None
       THEN finish([outcome |-> "REFUSAL", exit_code |-> 2,
                    payload |-> refusal_json(VERIFY_VERSION, "E_IO",
                                             "cannot read lockfile - {error}",
                                             << <<"path", JStr(args.lockfile_path)>>,
                                                <<"error", JStr("io error")>> >>,
                                             JNull)])
       ELSE finish(verify_text(args, validate_lockfile_json(args.lockfile.text),
                               verify_lock_hash_detail(args.lockfile.text)))

\* ------------------------------------------------------ runs of the tool
\* One run of `lock` or of `lock verify` per behaviour: the command line,
\* the files it reads and the ledger it finds are drawn by InitRun.

\* The lockfile of the two member records, as serde_json holds it.
VerifyLockfile ==
    LET read == read_jsonl([lines |-> << to_string(MemberRecords[1]),
                                         to_string(MemberRecords[2]) >>])
        options == [dataset_id |-> JNull, as_of |-> JNull, note |-> JNull]
        assembled == CHOOSE a \in assemble(options, read.ok, Created) : TRUE
    IN from_str(render_lockfile(assembled.ok).json).ok

\* What the lockfile path can hold: nothing readable, the lockfile, the
\* lockfile with something changed, and texts that are refused.
VerifyLockfiles ==
    LET changed(path, new) == [text |-> to_string(set_field(VerifyLockfile, path, new))]
        first(field) == << [key |-> "members"], [index |-> 1], [key |-> field] >>
    IN { None,
         [text |-> to_string(VerifyLockfile)],
         changed(first("size"), JNum(999)),
         changed(<< [key |-> "lock_hash"] >>, JNum(999)),
         [text |-> << Tok("{") >>],
         [text |-> to_string(JObj(<< <<"version", JStr("lock.v0")>> >>))],
         changed(<< [key |-> "version"] >>, JStr("lock.v9")),
         changed(first("path"), JStr("/a")),
         changed(first("path"), JStr("../a")),
         changed(first("bytes_hash"), JStr("md5:x")) }

\* What --root can be: not given, not a directory, or a directory in which
\* a/b is as locked and b is as locked, missing, of another size, of other
\* content, unreadable, or cannot be stat-ed.
VerifyRoots ==
    LET file(size, hex) == [exists |-> TRUE, stat_ok |-> TRUE, size |-> size,
                            read_ok |-> TRUE, hex |-> hex]
        dir(files) == [is_dir |-> TRUE, path |-> "root", files |-> files]
    IN { None, [is_dir |-> FALSE, path |-> "root", files |-> <<>>],
         dir(<< <<"a/b", file(2, "y")>> >>) } \cup
       { dir(<< <<"a/b", file(2, "y")>>, <<"b", b>> >>) :
           b \in { file(1, "x"), file(5, "x"), file(1, "z"),
                   [file(1, "x") EXCEPT !.read_ok = FALSE],
                   [file(1, "x") EXCEPT !.stat_ok = FALSE] } }

\* The ledger a run finds: no file, an empty file, a file with one record.
InitialLedgers ==
    { [exists |-> FALSE, bytes |-> <<>>], [exists |-> TRUE, bytes |-> <<>>],
      [exists |-> TRUE,
       bytes |-> << witness_record("LOCK_CREATED", 0, blake3(<<>>), None), NL >>] }

RunInputs ==
    [command : {"lock"}, input : LockInputs, options : CliOptions,
     no_witness : BOOLEAN, ledger : InitialLedgers] \cup
    [command : {"verify"}, lockfile_path : {"lock.json"}, lockfile : VerifyLockfiles,
     root : VerifyRoots, strict : BOOLEAN, json : BOOLEAN,
     no_witness : BOOLEAN, ledger : InitialLedgers]

InitRun ==
    /\ runInput \in RunInputs
    /\ run = None
    /\ ledgerExists = runInput.ledger.exists
    /\ ledgerBytes = runInput.ledger.bytes
    /\ procIdle /\ canonIdle /\ classifyIdle /\ hashIdle /\ callIdle

RunLock ==
    /\ run = None
    /\ runInput.command = "lock"
    /\ \E fault \in WitnessFaults :
         \E finished \in run_lock(runInput, Created, runInput.ledger, fault) :
            /\ run' = finished
            /\ ledgerExists' = finished.ledger.exists
            /\ ledgerBytes' = finished.ledger.bytes
    /\ UNCHANGED <<runInput, procVars, canonVars, classifyVars, hashVars, callVars>>

RunVerify ==
    /\ run = None
    /\ runInput.command = "verify"
    /\ \E fault \in WitnessFaults :
         \E finished \in { run_verify(runInput, runInput.ledger, fault) } :
            /\ run' = finished
            /\ ledgerExists' = finished.ledger.exists
            /\ ledgerBytes' = finished.ledger.bytes
    /\ UNCHANGED <<runInput, procVars, canonVars, classifyVars, hashVars, callVars>>

NextRun == RunLock \/ RunVerify

SpecRun == InitRun /\ [][NextRun]_vars

\* What a finished run printed, as a value: the JSON payload parsed, or the
\* value the human report was rendered from.
Printed ==
    LET bytes == run.events[1].bytes
    IN IF bytes[1].k = "human" THEN bytes[1].of ELSE from_str(bytes).ok

\* The run's calls of append_witness_record, in order.
Appends == SelectSeq(run.events, LAMBDA e : e.ev = "append")

\* C3: a verify run checks the members against --root only when the
\* self-hash is valid and --root was given; and whenever Level 1 recomputes
\* the self-hash and it differs from the stored lock_hash, the run prints
\* VERIFY_FAILED with members = null and returns 1, whatever the member
\* files, --root and --strict are.
SelfHashGatesMembers ==
    (run # None /\ runInput.command = "verify") =>
        LET level1 == get(Printed, "lock_hash")
            members == get(Printed, "members")
            tampered_text == verify_lock_hash_from_json(runInput.lockfile.text) # Ok(TRUE)
        IN /\ (members # None /\ members # JNull) =>
                  /\ runInput.root # None
                  /\ ~tampered_text
                  /\ get(level1, "valid") = JBool(TRUE)
           /\ (level1 # None /\ tampered_text) =>
                  /\ get(Printed, "outcome") = JStr("VERIFY_FAILED")
                  /\ run.outcome = "VERIFY_FAILED"
                  /\ run.exit_code = 1
                  /\ members = JNull
                  /\ get(level1, "valid") = JBool(FALSE)

\* A tampered lockfile verified with --strict against a root whose files all
\* match: VERIFY_FAILED, members null.
SelfHashGatesMembersReached ==
    /\ run # None /\ runInput.command = "verify"
    /\ runInput.root # None /\ runInput.root.is_dir /\ runInput.strict
    /\ Len(runInput.root.files) = 2 /\ runInput.root.files[2][2].hex = "x"
    /\ runInput.root.files[2][2].size = 1 /\ runInput.root.files[2][2].read_ok
    /\ runInput.root.files[2][2].stat_ok
    /\ get(Printed, "lock_hash") # None
    /\ get(get(Printed, "lock_hash"), "valid") = JBool(FALSE)
    /\ get(Printed, "members") = JNull
    /\ run.exit_code = 1

\* The run refused with one of the codes, exit code 2, and printed no
\* lock_hash block.
RefusedBeforeLevel1(codes) ==
    /\ run.outcome = "REFUSAL" /\ run.exit_code = 2
    /\ get(Printed, "outcome") = JStr("REFUSAL")
    /\ get(Printed, "refusal") # None
    /\ get(get(Printed, "refusal"), "code") \in { JStr(code) : code \in codes }
    /\ get(Printed, "lock_hash") = None

\* C16: a verify run goes through its stages in the order read, parse, shape
\* check, root check, Level 1, Level 2, and the first stage that fails
\* decides what it prints and returns: an unreadable, unparseable or
\* misshapen lockfile and a --root that is no directory give a REFUSAL with
\* exit code 2 and no self-hash result (a tampered lockfile against a
\* missing root gives E_ROOT_NOT_FOUND, not VERIFY_FAILED); after them a
\* self-hash mismatch gives VERIFY_FAILED without members, and only then
\* the members decide.
VerifyStagesInOrder ==
    (run # None /\ runInput.command = "verify") =>
        IF runInput.lockfile = None THEN RefusedBeforeLevel1({"E_IO"})
        ELSE IF from_str(runInput.lockfile.text) = None
        THEN RefusedBeforeLevel1({"E_BAD_LOCKFILE"})
        ELSE IF "err" \in DOMAIN validate_lockfile_json(runInput.lockfile.text)
        THEN RefusedBeforeLevel1({"E_BAD_LOCKFILE", "E_UNSUPPORTED_VERSION",
                                  "E_UNKNOWN_ALGORITHM"})
        ELSE IF runInput.root # None /\ ~runInput.root.is_dir
        THEN RefusedBeforeLevel1({"E_ROOT_NOT_FOUND"})
        ELSE /\ get(Printed, "lock_hash") # None
             /\ get(Printed, "outcome") = JStr(run.outcome)
             /\ IF verify_lock_hash_from_json(runInput.lockfile.text) # Ok(TRUE)
                THEN /\ run.outcome = "VERIFY_FAILED" /\ run.exit_code = 1
                     /\ get(Printed, "members") = JNull
                ELSE IF runInput.root = None
                THEN /\ run.outcome = "VERIFY_OK" /\ run.exit_code = 0
                     /\ get(Printed, "members") = JNull
                ELSE /\ get(Printed, "members") # JNull
                     /\ << run.outcome, run.exit_code >>
                          = members_outcome(
                                verify_members(from_str(runInput.lockfile.text).ok,
                                               runInput.root),
                                runInput.strict)

\* A lockfile of the right shape whose self-hash does not match, verified
\* against a --root that is no directory: E_ROOT_NOT_FOUND.
VerifyStagesInOrderReached ==
    /\ run # None /\ runInput.command = "verify"
    /\ runInput.lockfile # None
    /\ "ok" \in DOMAIN validate_lockfile_json(runInput.lockfile.text)
    /\ verify_lock_hash_from_json(runInput.lockfile.text) = Ok(FALSE)
    /\ runInput.root # None /\ ~runInput.root.is_dir
    /\ RefusedBeforeLevel1({"E_ROOT_NOT_FOUND"})

\* The same command line with --no-witness: what it can return and print.
Suppressed ==
    LET args == [runInput EXCEPT !.no_witness = TRUE]
        runs == IF args.command = "lock"
                THEN run_lock(args, Created, args.ledger, "none")
                ELSE { run_verify(args, args.ledger, "none") }
    IN { << r.exit_code, r.events[1] >> : r \in runs }

\* C4: the exit code and the stdout payload of a run are what the run gives
\* with the witness suppressed, whether the append succeeds or fails; a
\* failed append adds a warning on stderr and nothing else.
WitnessNeverChangesOutcome ==
    run # None =>
        /\ << run.exit_code, run.events[1] >> \in Suppressed
        /\ \A i \in 2..Len(run.events) :
              \/ i = 2 /\ run.events[i].ev = "append"
              \/ /\ i = 3 /\ run.events[i].ev = "eprintln"
                 /\ run.events[2].result = "Err"
        /\ (Appends # <<>> /\ Appends[1].result = "Err") =>
              run.events[Len(run.events)].ev = "eprintln"

\* A lock run that creates a lockfile, returns 0 and prints it although the
\* ledger could not be created.
WitnessNeverChangesOutcomeReached ==
    /\ run # None /\ runInput.command = "lock"
    /\ run.outcome = "LockCreated" /\ run.exit_code = 0
    /\ Appends # <<>> /\ Appends[1].result = "Err"
    /\ ~runInput.ledger.exists /\ ~ledgerExists
    /\ get(Printed, "members") # None

\* C5: the exit code of a run is fixed by its outcome: LOCK_CREATED 0,
\* LOCK_PARTIAL 1, VERIFY_OK 0, VERIFY_PARTIAL 1, VERIFY_FAILED 1, and 2 on
\* every path that prints a refusal; the outcome is the one printed.
ExitCodeFixedByOutcome ==
    run # None =>
        LET printed_outcome == get(Printed, "outcome")
            skipped == get(Printed, "skipped")
        IN /\ run.exit_code =
                 CASE run.outcome \in { "LockCreated", "VERIFY_OK" } -> 0
                   [] run.outcome \in { "LockPartial", "VERIFY_PARTIAL",
                                        "VERIFY_FAILED" } -> 1
                   [] run.outcome \in { "Refusal", "REFUSAL" } -> 2
           /\ (printed_outcome = JStr("REFUSAL")) <=> (run.exit_code = 2)
           /\ (printed_outcome = JStr("REFUSAL")) <=> (get(Printed, "refusal") # None)
           /\ (printed_outcome # None /\ runInput.command = "verify") =>
                 printed_outcome = JStr(run.outcome)
           /\ printed_outcome = None =>
                 /\ runInput.command = "lock"
                 /\ run.outcome = IF skipped.items = <<>> THEN "LockCreated"
                                  ELSE "LockPartial"

\* A verify run without --strict in which a member cannot be read:
\* VERIFY_PARTIAL, exit code 1.
ExitCodeFixedByOutcomeReached ==
    /\ run # None /\ runInput.command = "verify"
    /\ run.outcome = "VERIFY_PARTIAL" /\ run.exit_code = 1
    /\ get(get(Printed, "members"), "skipped") = JNum(1)

\* C6: a run without --no-witness prints its payload and then calls the
\* witness append exactly once, with the outcome and the exit code the run
\* returns; the record an append writes carries them, the hash of what was
\* printed and the id of the ledger's last record.
WitnessAppendedOnce ==
    (run # None /\ ~runInput.no_witness) =>
        LET wire == CASE run.outcome = "LockCreated" -> "LOCK_CREATED"
                      [] run.outcome = "LockPartial" -> "LOCK_PARTIAL"
                      [] run.outcome = "Refusal" -> "REFUSAL"
                      [] OTHER -> run.outcome
            last == read_last_non_empty_line(ledgerBytes)
        IN /\ Len(run.events) >= 2
           /\ run.events[1].ev = "print"
           /\ run.events[2].ev = "append"
           /\ Len(Appends) = 1
           /\ Appends[1].outcome = wire
           /\ Appends[1].exit_code = run.exit_code
           /\ Appends[1].result = "Ok" =>
                 /\ ledgerExists
                 /\ ledgerBytes = runInput.ledger.bytes \o << last[1], NL >>
                 /\ last[1] = witness_record(wire, run.exit_code,
                                             blake3(run.events[1].bytes),
                                             read_last_record_id(runInput.ledger.bytes))

\* A verify run refused for a --root that is not a directory, recorded as
\* REFUSAL with exit code 2 after the one record the ledger held.
WitnessAppendedOnceReached ==
    /\ run # None /\ ~runInput.no_witness /\ runInput.command = "verify"
    /\ run.exit_code = 2
    /\ get(get(Printed, "refusal"), "code") = JStr("E_ROOT_NOT_FOUND")
    /\ Appends[1].result = "Ok"
    /\ Len(ledgerBytes) = 4
    /\ ledgerBytes[3].outcome = "REFUSAL" /\ ledgerBytes[3].exit_code = 2
    /\ ledgerBytes[3].prev = ledgerBytes[1].id

\* C7: a run with --no-witness leaves the ledger as it found it: nothing is
\* appended, no append is attempted, and a ledger file that did not exist is
\* not created.
NoWitnessLeavesLedger ==
    (run # None /\ runInput.no_witness) =>
        /\ ledgerExists = runInput.ledger.exists
        /\ ledgerBytes = runInput.ledger.bytes
        /\ Appends = <<>>
        /\ Len(run.events) = 1

\* A verify run with --no-witness that fails (a member is missing) and
\* leaves no ledger file behind.
NoWitnessLeavesLedgerReached ==
    /\ run # None /\ runInput.no_witness /\ runInput.command = "verify"
    /\ run.outcome = "VERIFY_FAILED" /\ run.exit_code = 1
    /\ get(get(Printed, "members"), "failed") = JNum(1)
    /\ ~runInput.ledger.exists /\ ~ledgerExists /\ ledgerBytes = <<>>

\* ------------------------------------------------------- witness queries
\* A WitnessRecord is a record line of the ledger: [k |-> "rec"] with the
\* fields the line gives.  An Option is None or Some(value); a field the
\* line does not give is None (#[serde(default)]).

Some(value) == [some |-> value]

field_of(record, name) == IF name \in DOMAIN record THEN record[name] ELSE None

\* DateTime::parse_from_rfc3339 on texts without fraction of a second:
\* "YYYY-MM-DDTHH:MM:SS" and then "Z" or a numeric offset "+HH:MM" or
\* "-HH:MM".  Some of the instant in seconds since 1970-01-01T00:00:00Z, or
\* None.
parse_rfc3339_timestamp(value) ==
    LET ch(i) == SubSeq(value, i, i)
        is_digit(i) == \E d \in 1..10 : SubSeq("0123456789", d, d) = ch(i)
        digit(i) == (CHOOSE d \in 1..10 : SubSeq("0123456789", d, d) = ch(i)) - 1
        two(i) == 10 * digit(i) + digit(i + 1)
        year == 100 * two(1) + two(3)
        month == two(6)
        day == two(9)
        leap == year % 4 = 0 /\ (year % 100 # 0 \/ year % 400 = 0)
        days_in_month ==
            IF month = 2 THEN (IF leap THEN 29 ELSE 28)
            ELSE IF month \in {4, 6, 9, 11} THEN 30 ELSE 31
        \* The days from 1970-01-01 to the date, in the proleptic Gregorian
        \* calendar.
        y == IF month <= 2 THEN year - 1 ELSE year
        era == y \div 400
        yoe == y - era * 400
        doy == (153 * (IF month > 2 THEN month - 3 ELSE month + 9) + 2) \div 5 + day - 1
        doe == yoe * 365 + yoe \div 4 - yoe \div 100 + doy
        days == era * 146097 + doe - 719468
        local == ((days * 24 + two(12)) * 60 + two(15)) * 60 + two(18)
        offset == IF Len(value) = 20 THEN 0
                  ELSE (IF ch(20) = "-" THEN -1 ELSE 1) * (two(21) * 60 + two(24)) * 60
        shaped ==
            /\ Len(value) \in {20, 25}
            /\ \A i \in {1, 2, 3, 4, 6, 7, 9, 10, 12, 13, 15, 16, 18, 19} : is_digit(i)
            /\ ch(5) = "-" /\ ch(8) = "-" /\ ch(11) = "T"
            /\ ch(14) = ":" /\ ch(17) = ":"
            /\ IF Len(value) = 20 THEN ch(20) = "Z"
               ELSE /\ ch(20) \in {"+", "-"}
                    /\ \A i \in {21, 22, 24, 25} : is_digit(i)
                    /\ ch(23) = ":"
        in_range ==
            /\ month \in 1..12 /\ day \in 1..days_in_month
            /\ two(12) <= 23 /\ two(15) <= 59 /\ two(18) <= 59
            /\ (Len(value) = 25 => two(21) <= 23 /\ two(24) <= 59)
    IN IF shaped /\ in_range THEN Some(local - offset) ELSE None

\* record.ts.as_deref().and_then(parse_rfc3339_timestamp).
parsed_ts(record) ==
    IF field_of(record, "ts") = None THEN None
    ELSE parse_rfc3339_timestamp(field_of(record, "ts").some)

\* The comparison inside sort_by and max_by: by instant when both ts parse,
\* else Option<String>::cmp on the raw ts (None before Some, strings by
\* their bytes).
compare_ts(a, b) ==
    LET a_parsed == parsed_ts(a)
        b_parsed == parsed_ts(b)
        a_ts == field_of(a, "ts")
        b_ts == field_of(b, "ts")
    IN IF a_parsed # None /\ b_parsed # None
       THEN (IF a_parsed.some < b_parsed.some THEN "Less"
             ELSE IF a_parsed.some = b_parsed.some THEN "Equal" ELSE "Greater")
       ELSE IF a_ts = None THEN (IF b_ts = None THEN "Equal" ELSE "Less")
       ELSE IF b_ts = None THEN "Greater"
       ELSE IF a_ts.some = b_ts.some THEN "Equal"
       ELSE IF str_lt(a_ts.some, b_ts.some) THEN "Less" ELSE "Greater"

\* The closure dispatch_query sorts with: most recent first.
most_recent_first(a, b) == compare_ts(b, a)

\* str::contains.
contains(text, pattern) ==
    \E i \in 1..(Len(text) - Len(pattern) + 1) :
        SubSeq(text, i, i + Len(pattern) - 1) = pattern

\* The mutant of matches_filters used by MatchesEveryFilter: since and until
\* compare the raw strings.
matches_filters_lexical(record, filters) ==
    /\ filters.tool # None => field_of(record, "tool") = filters.tool
    /\ filters.outcome # None => field_of(record, "outcome") = filters.outcome
    /\ filters.input_hash # None =>
          /\ field_of(record, "inputs") # None
          /\ \E i \in 1..Len(field_of(record, "inputs").some) :
                LET hash == get(field_of(record, "inputs").some[i], "hash")
                IN hash # None /\ hash.t = "str"
                   /\ contains(hash.s, filters.input_hash.some)
    /\ filters.since # None =>
          /\ field_of(record, "ts") # None
          /\ str_lt(filters.since.some, field_of(record, "ts").some)
    /\ filters.until # None =>
          /\ field_of(record, "ts") # None
          /\ str_lt(field_of(record, "ts").some, filters.until.some)

matches_filters(record, filters) ==
    /\ filters.tool # None => field_of(record, "tool") = filters.tool
    /\ filters.outcome # None => field_of(record, "outcome") = filters.outcome
    /\ filters.input_hash # None =>
          /\ field_of(record, "inputs") # None
          /\ \E i \in 1..Len(field_of(record, "inputs").some) :
                LET hash == get(field_of(record, "inputs").some[i], "hash")
                IN hash # None /\ hash.t = "str"
                   /\ contains(hash.s, filters.input_hash.some)
    /\ filters.since # None =>
          /\ parse_rfc3339_timestamp(filters.since.some) # None
          /\ parsed_ts(record) # None
          /\ parsed_ts(record).some > parse_rfc3339_timestamp(filters.since.some).some
    /\ filters.until # None =>
          /\ parse_rfc3339_timestamp(filters.until.some) # None
          /\ parsed_ts(record) # None
          /\ parsed_ts(record).some < parse_rfc3339_timestamp(filters.until.some).some

apply_filters(recs, filters) ==
    SelectSeq(recs, LAMBDA record : matches_filters(record, filters))

\* slice::sort_by, with cmp[i, j] what the closure answers on v[i], v[j].
\* When that is a total order on the elements the sort is stable:
\* ascending, equal elements in their first order.  When it is not, the
\* library leaves the resulting order unspecified and may panic.
sort_by(v, cmp) ==
    LET n == Len(v)
        reverse(ordering) ==
            CASE ordering = "Less" -> "Greater"
              [] ordering = "Equal" -> "Equal"
              [] ordering = "Greater" -> "Less"
        total(c) ==
            /\ \A i, j \in 1..n : c[i, j] = reverse(c[j, i])
            /\ \A i, j, k \in 1..n :
                  (c[i, j] # "Greater" /\ c[j, k] # "Greater") => c[i, k] # "Greater"
        stable(c, p) ==
            \A i, j \in 1..n :
                i < j => /\ c[p[i], p[j]] # "Greater"
                         /\ c[p[i], p[j]] = "Equal" => p[i] < p[j]
        sorted(c) ==
            IF total(c)
            THEN { Ok([i \in 1..n |-> v[p[i]]]) :
                     p \in { q \in Permutations(1..n) : stable(c, q) } }
            ELSE { Ok([i \in 1..n |-> v[p[i]]]) : p \in Permutations(1..n) }
                 \cup { [panic |-> TRUE] }
    IN UNION { sorted(c) : c \in { cmp } }

\* Iterator::max_by, with cmp[i, j] what the closure answers on v[i], v[j]:
\* of several maxima the last; None for no element.
max_by(v, cmp) ==
    LET RECURSIVE fold(_, _)
        fold(best, i) ==
            IF i > Len(v) THEN Some(v[best])
            ELSE fold(IF cmp[best, i] = "Greater" THEN best ELSE i, i + 1)
    IN IF v = <<>> THEN None ELSE fold(1, 2)

\* What a witness subcommand leaves: the exit code, what it printed on
\* stdout ([json, records] or [json, count]) and on stderr.
Dispatched(exit_code, stdout, stderr) ==
    [exit_code |-> exit_code, stdout |-> stdout, stderr |-> stderr]

\* read_ledger fails when the file is there and cannot be opened or read.
ledger_error(file) == file.exists /\ ~file.readable

\* dispatch_query on the ledger file [exists, bytes, readable]: what the
\* call can return and print (a process that panics exits with 101).
dispatch_query(file, filters, limit, json_output) ==
    IF ledger_error(file)
    THEN { Dispatched(2, None, [text |-> "lock: witness ledger error: {e}"]) }
    ELSE { IF "panic" \in DOMAIN sorted
           THEN Dispatched(101, None, [text |-> "panicked"])
           ELSE IF Take(sorted.ok, limit) = <<>>
           THEN (IF json_output
                 THEN Dispatched(1, [json |-> TRUE, records |-> <<>>], None)
                 ELSE Dispatched(1, None, [text |-> "no matching witness records"]))
           ELSE Dispatched(0, [json |-> json_output, records |-> Take(sorted.ok, limit)],
                           None) :
             sorted \in UNION {
                 sort_by(recs, [i \in 1..Len(recs), j \in 1..Len(recs) |->
                                      most_recent_first(recs[i], recs[j])]) :
                 recs \in { apply_filters(read_ledger(file.exists, file.bytes),
                                             filters) } } }

\* dispatch_last.
dispatch_last(file, json_output) ==
    IF ledger_error(file)
    THEN Dispatched(2, None, [text |-> "lock: witness ledger error: {e}"])
    ELSE LET recs == read_ledger(file.exists, file.bytes)
             last == max_by(recs, [i \in 1..Len(recs), j \in 1..Len(recs) |->
                                         compare_ts(recs[i], recs[j])])
         IN IF last # None
            THEN Dispatched(0, [json |-> json_output, records |-> << last.some >>], None)
            ELSE IF json_output
            THEN Dispatched(1, [json |-> TRUE, records |-> <<>>], None)
            ELSE Dispatched(1, None, [text |-> "no witness records"])

\* dispatch_count.
dispatch_count(file, filters, json_output) ==
    IF ledger_error(file)
    THEN Dispatched(2, None, [text |-> "lock: witness ledger error: {e}"])
    ELSE Dispatched(0,
                    [json |-> json_output,
                     count |-> Len(apply_filters(read_ledger(file.exists, file.bytes),
                                                 filters))],
                    None)

\* ------------------------------------- specification: witness subcommands
\* One call of a witness subcommand, or of append_witness_record_to, on a
\* ledger file; and single calls of matches_filters.

\* Most record lines in the ledger a call finds.
MaxLedgerRecords == 3

\* The ts of the records: 22:00 UTC written with an offset and with Z,
\* 22:30 UTC, a text without offset (which does not parse), and no ts.
WitnessTimestamps ==
    { Some("2026-01-01T00:00:00+02:00"), Some("2025-12-31T22:00:00Z"),
      Some("2025-12-31T22:30:00Z"), Some("2025-12-31T23:00:00"), None }

NoFilters ==
    [tool |-> None, outcome |-> None, input_hash |-> None, since |-> None,
     until |-> None]

\* The filters of the command line: since 22:15 UTC, until 22:30 UTC written
\* with an offset, texts that are no timestamps.
WitnessFilters ==
    [tool : {None, Some("lock")}, outcome : {None, Some("LOCK_CREATED")},
     input_hash : {None, Some("ab")},
     since : {None, Some("2025-12-31T22:15:00Z"), Some("2025-12-31T22:00:00Z"),
              Some("not-a-timestamp")},
     until : {None, Some("2025-12-31T23:30:00+01:00"), Some("tomorrow")}]

\* Records as other tools and this one write them.
WitnessRecords ==
    [k : {"rec"}, tool : {Some("lock"), None},
     outcome : {Some("LOCK_CREATED"), Some("REFUSAL")},
     ts : WitnessTimestamps \cup {Some("not-a-timestamp")},
     inputs : {None, Some(<< JObj(<< <<"hash", JStr("sha256:ab")>> >>) >>),
               Some(<< JObj(<< <<"path", JStr("ab")>> >>) >>)}]

\* The ledger files: absent, or up to MaxLedgerRecords record lines of this
\* tool that differ in their ts, the last of them with or without its "\n".
WitnessLedgers ==
    LET own == [k : {"rec"}, tool : {Some("lock")}, outcome : {Some("LOCK_CREATED")},
                ts : WitnessTimestamps, inputs : {None}]
        RECURSIVE lines(_)
        lines(recs) ==
            IF recs = <<>> THEN <<>> ELSE << recs[1], NL >> \o lines(Tail(recs))
    IN { [exists |-> FALSE, bytes |-> <<>>] } \cup
       { [exists |-> TRUE, bytes |-> lines(recs)] :
           recs \in SeqsUpTo(own, MaxLedgerRecords) }

WitnessCalls ==
    [op : {"matches_filters"}, record : WitnessRecords, filters : WitnessFilters]
    \cup
    [op : {"dispatch_query"}, ledger : WitnessLedgers, readable : {TRUE},
     filters : {NoFilters, [NoFilters EXCEPT !.since = Some("2025-12-31T21:00:00Z")]},
     limit : {0, 1, 2, 20}, json : BOOLEAN]
    \cup
    [op : {"dispatch_last"}, ledger : WitnessLedgers, readable : {TRUE},
     json : BOOLEAN]
    \cup
    [op : {"dispatch_count"}, ledger : WitnessLedgers, readable : {TRUE},
     filters : {NoFilters, [NoFilters EXCEPT !.until = Some("2025-12-31T22:30:00Z")]},
     json : BOOLEAN]
    \cup
    [op : {"dispatch_query"},
     ledger : { l \in WitnessLedgers : Len(l.bytes) <= 2 }, readable : {FALSE},
     filters : {NoFilters}, limit : {20}, json : BOOLEAN]
    \cup
    [op : {"dispatch_last", "dispatch_count"},
     ledger : { l \in WitnessLedgers : Len(l.bytes) <= 2 }, readable : {FALSE},
     filters : {NoFilters}, json : BOOLEAN]
    \cup
    [op : {"append_witness_record_to"},
     ledger : { l \in WitnessLedgers : Len(l.bytes) <= 4 } \cup
              { [exists |-> TRUE, bytes |-> Append(l.bytes, tail)] :
                  l \in { w \in WitnessLedgers : Len(w.bytes) <= 2 },
                  tail \in { Torn, witness_record("REFUSAL", 2, blake3(<<>>), None) } },
     outcome : {"LOCK_CREATED"}, exit_code : {0}, output_bytes : { <<>> }]

InitWitness ==
    /\ call \in WitnessCalls
    /\ ret = None
    /\ ledgerExists = (IF "ledger" \in DOMAIN call THEN call.ledger.exists ELSE None)
    /\ ledgerBytes = (IF "ledger" \in DOMAIN call THEN call.ledger.bytes ELSE None)
    /\ procIdle /\ canonIdle /\ classifyIdle /\ hashIdle /\ runIdle

\* The ledger file as the call finds it.
LedgerFile ==
    [exists |-> ledgerExists, bytes |-> ledgerBytes, readable |-> call.readable]

CallMatchesFilters ==
    /\ call.op = "matches_filters"
    /\ ret = None
    /\ ret' = [value |-> matches_filters(call.record, call.filters)]
    /\ UNCHANGED <<call, ledgerVars, procVars, canonVars, classifyVars, hashVars, runVars>>

CallDispatchQuery ==
    /\ call.op = "dispatch_query"
    /\ ret = None
    /\ \E dispatched \in dispatch_query(LedgerFile, call.filters, call.limit, call.json) :
          ret' = [value |-> dispatched]
    /\ UNCHANGED <<call, ledgerVars, procVars, canonVars, classifyVars, hashVars, runVars>>

CallDispatchLast ==
    /\ call.op = "dispatch_last"
    /\ ret = None
    /\ ret' = [value |-> dispatch_last(LedgerFile, call.json)]
    /\ UNCHANGED <<call, ledgerVars, procVars, canonVars, classifyVars, hashVars, runVars>>

CallDispatchCount ==
    /\ call.op = "dispatch_count"
    /\ ret = None
    /\ ret' = [value |-> dispatch_count(LedgerFile, call.filters, call.json)]
    /\ UNCHANGED <<call, ledgerVars, procVars, canonVars, classifyVars, hashVars, runVars>>

CallAppendWitnessRecordTo ==
    /\ call.op = "append_witness_record_to"
    /\ ret = None
    /\ \E fault \in WitnessFaults :
         \E appended \in { append_witness_record_to(
                               [exists |-> ledgerExists, bytes |-> ledgerBytes],
                               call.outcome, call.exit_code, call.output_bytes,
                               fault) } :
            /\ ret' = [value |-> appended.result]
            /\ ledgerExists' = appended.ledger.exists
            /\ ledgerBytes' = appended.ledger.bytes
    /\ UNCHANGED <<call, procVars, canonVars, classifyVars, hashVars, runVars>>

NextWitness ==
    \/ CallMatchesFilters
    \/ CallDispatchQuery
    \/ CallDispatchLast
    \/ CallDispatchCount
    \/ CallAppendWitnessRecordTo

SpecWitness == InitWitness /\ [][NextWitness]_vars

\* ------------------------------------------------ single calls of functions
\* A specification that makes one call of one function of the tool: Init
\* draws the function and its arguments, the function's action applies it.

\* The calls of merge_tool_versions: the records are without tool_versions,
\* with one that is no object, with versions of one or two tools, with a
\* version that is no string, with a lock entry of their own, or skipped.
MergeCalls ==
    LET tool_versions(entries) == <<"tool_versions", JObj(entries)>>
        values ==
            { JObj(<< <<"path", JStr("a")>> >>),
              JObj(<< <<"tool_versions", JStr("hash")>> >>),
              JObj(<< tool_versions(<< <<"hash", JStr("0.1.0")>> >>) >>),
              JObj(<< tool_versions(<< <<"fingerprint", JStr("0.3.0")>>,
                                       <<"hash", JStr("0.2.0")>> >>) >>),
              JObj(<< tool_versions(<< <<"hash", JNum(3)>>,
                                       <<"vacuum", JStr("0.1.0")>> >>) >>),
              JObj(<< tool_versions(<< <<"lock", JStr("0.9.0")>> >>) >>),
              JObj(<< <<"_skipped", JBool(TRUE)>>,
                      tool_versions(<< <<"hash", JStr("0.4.0")>>,
                                       <<"vacuum", JStr("0.2.0")>> >>) >>) }
    IN { [op |-> "merge_tool_versions", records |-> input_records(input),
          lock_version |-> CARGO_PKG_VERSION] :
            input \in SeqsUpTo(values, MaxRecords) }

\* Most lines in an input file made of records that the hash gate counts
\* or passes over.
MaxGateLines == 6

\* The calls of orchestrate (run_lock up to what it prints): on the input
\* files of LockInputs, and on longer files whose records lack a bytes_hash
\* (with a path, without one, with a blank bytes_hash) or are skipped
\* without a bytes_hash.
OrchestrateCalls ==
    LET values ==
            { JObj(<< <<"version", JStr("hash.v0")>>, <<"relative_path", JStr("a")>>,
                      <<"size", JNum(1)>> >>),
              JObj(<< <<"version", JStr("vacuum.v0")>>, <<"size", JNum(1)>> >>),
              JObj(<< <<"version", JStr("hash.v0")>>, <<"path", JStr("b")>>,
                      <<"bytes_hash", JStr(" ")>>, <<"size", JNum(1)>> >>),
              JObj(<< <<"version", JStr("hash.v0")>>, <<"_skipped", JBool(TRUE)>>,
                      <<"path", JStr("c")>> >>) }
        gated == { [lines |-> lines] :
                     lines \in SeqsUpTo({ to_string(value) : value \in values },
                                        MaxGateLines) }
    IN { [op |-> "orchestrate", cli |-> cli, input |-> input] :
           cli \in CliOptions, input \in LockInputs }
       \cup { [op |-> "orchestrate", cli |-> [dataset_id |-> JNull, as_of |-> JNull,
                                              note |-> JNull], input |-> input] :
                input \in gated }

\* Longest member path tried on validate_lockfile_json.
MaxPathLen == 5

\* The calls of validate_lockfile_json: the lockfile of the two member
\* records with the path of one member replaced by a string of letters,
\* dots, slashes and backslashes.
ValidateCalls ==
    LET RECURSIVE concat(_)
        concat(chars) == IF chars = <<>> THEN "" ELSE chars[1] \o concat(Tail(chars))
        paths == { concat(chars) : chars \in SeqsUpTo({"a", ".", "/", "\\"}, MaxPathLen) }
    IN { [op |-> "validate_lockfile_json",
          json |-> to_string(set_field(VerifyLockfile,
                                       << [key |-> "members"], [index |-> i],
                                          [key |-> "path"] >>, JStr(path)))] :
           path \in paths, i \in 1..2 }

\* Most members of a lockfile handed to verify_members.
MaxMembers == 2

\* The calls of verify_members, on lockfiles that have the required fields:
\* the i-th member has the i-th letter as its
\* path, a sha256 bytes_hash and a size, a blake3 bytes_hash and no size, or
\* no bytes_hash; under the root its file is not there, cannot be stat-ed,
\* is of another size (readable or not), cannot be read, has other content,
\* or is as locked.
VerifyMembersCalls ==
    LET path(i) == SubSeq("abcdefgh", i, i)
        stored == { << <<"bytes_hash", JStr("sha256:x")>>, <<"size", JNum(1)>> >>,
                    << <<"bytes_hash", JStr("blake3:x")>> >>,
                    << <<"size", JNum(1)>> >> }
        file(size, hex) == [exists |-> TRUE, stat_ok |-> TRUE, size |-> size,
                            read_ok |-> TRUE, hex |-> hex]
        files == { None, [file(1, "x") EXCEPT !.exists = FALSE],
                   [file(1, "x") EXCEPT !.stat_ok = FALSE],
                   file(5, "x"), [file(5, "x") EXCEPT !.read_ok = FALSE],
                   [file(1, "x") EXCEPT !.read_ok = FALSE],
                   file(1, "z"), file(1, "x") }
        on_disk(held) == SelectSeq([i \in 1..Len(held) |-> << path(i), held[i] >>],
                                   LAMBDA entry : entry[2] # None)
    IN { [op |-> "verify_members",
          lockfile_json |->
              JObj(<< <<"lock_hash", JStr("sha256:x")>>,
                      <<"members",
                        JArr([i \in 1..Len(members) |->
                                JObj(<< <<"path", JStr(path(i))>> >> \o members[i])])>>,
                      <<"version", JStr("lock.v0")>> >>),
          root |-> [is_dir |-> TRUE, path |-> "root", files |-> on_disk(held)]] :
           members \in SeqsUpTo(stored, MaxMembers),
           held \in SeqsUpTo(files, MaxMembers) }

\* The calls of members_outcome: on what verify_members returns, with and
\* without --strict.
MembersOutcomeCalls ==
    { [op |-> "members_outcome",
       members_result |-> verify_members(verified.lockfile_json, verified.root),
       strict |-> strict] :
        verified \in VerifyMembersCalls, strict \in BOOLEAN }

Calls ==
    MergeCalls \cup OrchestrateCalls \cup ValidateCalls \cup VerifyMembersCalls
    \cup MembersOutcomeCalls

InitCall ==
    /\ call \in Calls
    /\ ret = None
    /\ ledgerIdle /\ canonIdle /\ classifyIdle /\ hashIdle /\ runIdle

Returned(op) == call # None /\ call.op = op /\ ret # None

CallMergeToolVersions ==
    /\ call.op = "merge_tool_versions"
    /\ ret = None
    /\ ret' = [value |-> merge_tool_versions(call.records, call.lock_version)]
    /\ UNCHANGED <<call, ledgerVars, procVars, canonVars, classifyVars, hashVars, runVars>>

CallOrchestrate ==
    /\ call.op = "orchestrate"
    /\ ret = None
    /\ \E output \in orchestrate(call.cli, call.input, Created) :
          ret' = [value |-> output]
    /\ UNCHANGED <<call, ledgerVars, procVars, canonVars, classifyVars, hashVars, runVars>>

CallValidateLockfileJson ==
    /\ call.op = "validate_lockfile_json"
    /\ ret = None
    /\ ret' = [value |-> validate_lockfile_json(call.json)]
    /\ UNCHANGED <<call, ledgerVars, procVars, canonVars, classifyVars, hashVars, runVars>>

CallVerifyMembers ==
    /\ call.op = "verify_members"
    /\ ret = None
    /\ ret' = [value |-> verify_members(call.lockfile_json, call.root)]
    /\ UNCHANGED <<call, ledgerVars, procVars, canonVars, classifyVars, hashVars, runVars>>

CallMembersOutcome ==
    /\ call.op = "members_outcome"
    /\ ret = None
    /\ ret' = [value |-> members_outcome(call.members_result, call.strict)]
    /\ UNCHANGED <<call, ledgerVars, procVars, canonVars, classifyVars, hashVars, runVars>>

NextCall ==
    \/ CallMergeToolVersions
    \/ CallOrchestrate
    \/ CallValidateLockfileJson
    \/ CallVerifyMembers
    \/ CallMembersOutcome

SpecCall == InitCall /\ [][NextCall]_vars

\* The string version a record's tool_versions object gives a tool, or None.
version_in(record, tool) ==
    LET tool_versions == get(record.value, "tool_versions")
    IN IF tool_versions = None \/ tool_versions.t # "obj" THEN None
       ELSE LET version == map_get(tool_versions.entries, tool)
            IN IF version = None \/ version.t # "str" THEN None ELSE version

ToolNames == {"fingerprint", "hash", "lock", "vacuum"}

\* C11: for every tool other than lock that some input record (skipped ones
\* included) names with a string version, the merged tool_versions holds the
\* version of the first record, in input order, that names it so; a later
\* record's version never replaces it.
FirstSeenVersionWins ==
    Returned("merge_tool_versions") =>
        \A tool \in ToolNames \ {"lock"} :
            \A i \in 1..Len(call.records) :
                (/\ version_in(call.records[i], tool) # None
                 /\ \A k \in 1..(i - 1) : version_in(call.records[k], tool) = None)
                => <<tool, version_in(call.records[i], tool).s>> \in Range(ret.value)

\* A merge in which a later record names another version of a tool an
\* earlier record named (the first of them a skipped record or not).
FirstSeenVersionWinsReached ==
    /\ Returned("merge_tool_versions")
    /\ \E tool \in ToolNames \ {"lock"} :
         \E i, k \in 1..Len(call.records) :
            /\ i < k
            /\ version_in(call.records[i], tool) # None
            /\ version_in(call.records[k], tool) # None
            /\ version_in(call.records[i], tool) # version_in(call.records[k], tool)
            /\ <<tool, version_in(call.records[i], tool).s>> \in Range(ret.value)

\* C12: the merged tool_versions always has the key lock, and its value is
\* always the version of the running tool (the lock_version argument), also
\* when an input record's tool_versions has a lock entry of its own with
\* another version.
LockEntryIsOwnVersion ==
    Returned("merge_tool_versions") =>
        /\ \E i \in 1..Len(ret.value) : ret.value[i][1] = "lock"
        /\ \A i \in 1..Len(ret.value) :
              ret.value[i][1] = "lock" => ret.value[i][2] = call.lock_version

\* The records of the input file of a call of orchestrate whose lines all
\* parse, and the refusal it printed (None when it printed a lockfile).
InputValues == [i \in 1..Len(call.input.lines) |-> from_str(call.input.lines[i]).ok]

Refusal == LET refusal == get(from_str(ret.value.payload_json).ok, "refusal")
           IN IF ret.value.outcome = "Refusal" THEN refusal ELSE None

Refused(code) ==
    /\ Returned("orchestrate")
    /\ Refusal # None
    /\ get(Refusal, "code") = JStr(code)

OnlySpaces(string) == \A i \in 1..Len(string) : SubSeq(string, i, i) = " "

\* A record that is not skipped and has no string bytes_hash, or an empty one.
LacksHash(value) ==
    /\ ~SkippedValue(value)
    /\ \/ get(value, "bytes_hash") = None
       \/ get(value, "bytes_hash").t # "str"
       \/ get(value, "bytes_hash").s = ""

\* A record that is not skipped and has no string bytes_hash, or one that is
\* empty once trimmed.
LacksTrimmedHash(value) ==
    /\ ~SkippedValue(value)
    /\ \/ get(value, "bytes_hash") = None
       \/ get(value, "bytes_hash").t # "str"
       \/ OnlySpaces(get(value, "bytes_hash").s)

\* The path reported for a record: its relative_path, else its path, and
\* <unknown> when that is no string.
ReportedPath(value) ==
    LET field == IF get(value, "relative_path") # None
                 THEN get(value, "relative_path") ELSE get(value, "path")
    IN JStr(IF field # None /\ field.t = "str" THEN field.s ELSE "<unknown>")

FirstFive(seq) == SubSeq(seq, 1, IF Len(seq) < 5 THEN Len(seq) ELSE 5)

\* C14 as stated: in an E_MISSING_HASH refusal, detail.count is the number
\* of records that are not skipped and lack a non-empty string bytes_hash,
\* and detail.sample_paths is the paths of the first min(5, count) of them
\* in input order.
MissingHashCountsEmpty ==
    Refused("E_MISSING_HASH") =>
        LET lacking == SelectSeq(InputValues, LacksHash)
            detail == get(Refusal, "detail")
        IN /\ get(detail, "count") = JNum(Len(lacking))
           /\ get(detail, "sample_paths")
                = JArr([i \in 1..Len(FirstFive(lacking)) |-> ReportedPath(lacking[i])])

\* C14 amended: in an E_MISSING_HASH refusal, detail.count is the number of
\* records that are not skipped and lack a string bytes_hash that is
\* non-empty after trimming whitespace, and detail.sample_paths is the paths
\* of the first min(5, count) of them in input order.
MissingHashCountsBlank ==
    Refused("E_MISSING_HASH") =>
        LET lacking == SelectSeq(InputValues, LacksTrimmedHash)
            detail == get(Refusal, "detail")
        IN /\ get(detail, "count") = JNum(Len(lacking))
           /\ get(detail, "sample_paths")
                = JArr([i \in 1..Len(FirstFive(lacking)) |-> ReportedPath(lacking[i])])

\* An E_MISSING_HASH refusal for six records without a bytes_hash, the
\* first and the sixth of them with different paths.
MissingHashCountsBlankReached ==
    /\ Refused("E_MISSING_HASH")
    /\ get(get(Refusal, "detail"), "count") = JNum(6)
    /\ Len(get(get(Refusal, "detail"), "sample_paths").items) = 5
    /\ ReportedPath(InputValues[6]) # ReportedPath(InputValues[1])
    /\ \E i \in 1..6 : ReportedPath(InputValues[i]) = JStr("<unknown>")

\* The lines of the input file that fail to parse (blank or no JSON), and,
\* for a file whose lines all parse, the records that fail each later stage.
ParseFailures ==
    { i \in 1..Len(call.input.lines) :
        call.input.lines[i] = <<>> \/ from_str(call.input.lines[i]) = None }

BadVersions ==
    { i \in 1..Len(InputValues) :
        \/ get(InputValues[i], "version") = None
        \/ get(InputValues[i], "version").t # "str"
        \/ get(InputValues[i], "version").s \notin {"vacuum.v0", "hash.v0", "fingerprint.v0"} }

HashFailures == { i \in 1..Len(InputValues) : LacksTrimmedHash(InputValues[i]) }

ClassifyFailures ==
    { i \in 1..Len(InputValues) :
        \/ ~HasPath(InputValues[i])
        \/ /\ ~SkippedValue(InputValues[i])
           /\ \/ get(InputValues[i], "size") = None
              \/ get(InputValues[i], "size").t # "num" }

First(lines) == CHOOSE i \in lines : \A k \in lines : i <= k

RefusedAtLine(code, line, key) ==
    /\ Refused(code)
    /\ get(get(Refusal, "detail"), "line") = JNum(line)
    /\ get(get(Refusal, "detail"), key) # None

\* C15: the lock pipeline reports the refusal of the first stage that fails,
\* in the order parse (an unreadable file, a blank or invalid line:
\* E_BAD_INPUT at that line), empty input (E_EMPTY), version gate
\* (E_BAD_INPUT naming the line and the version of the first record with an
\* unaccepted version, also when records before it lack bytes_hash), hash
\* gate (E_MISSING_HASH), classify (E_BAD_INPUT at the line of the first
\* record that cannot be classified); when no stage fails it refuses nothing.
FirstFailingStageRefuses ==
    Returned("orchestrate") =>
        IF call.input = None THEN RefusedAtLine("E_BAD_INPUT", 0, "error")
        ELSE IF ParseFailures # {}
        THEN RefusedAtLine("E_BAD_INPUT", First(ParseFailures), "error")
        ELSE IF call.input.lines = <<>> THEN Refused("E_EMPTY")
        ELSE IF BadVersions # {}
        THEN RefusedAtLine("E_BAD_INPUT", First(BadVersions), "version")
        ELSE IF HashFailures # {} THEN Refused("E_MISSING_HASH")
        ELSE IF ClassifyFailures # {}
        THEN RefusedAtLine("E_BAD_INPUT", First(ClassifyFailures), "error")
        ELSE Refusal = None

\* A refusal for the unaccepted version of the second record, the first
\* record lacking a bytes_hash.
FirstFailingStageRefusesReached ==
    /\ Returned("orchestrate")
    /\ call.input # None /\ ParseFailures = {}
    /\ BadVersions = {2} /\ 1 \in HashFailures
    /\ RefusedAtLine("E_BAD_INPUT", 2, "version")

\* The member paths of the lockfile text handed to validate_lockfile_json.
MemberPaths ==
    LET members == get(from_str(call.json).ok, "members").items
    IN { get(members[i], "path").s : i \in 1..Len(members) }

Separator(string, i) == SubSeq(string, i, i) \in {"/", "\\"}

\* The path begins with / or \.
Absolute(path) == path # "" /\ Separator(path, 1)

\* Split at every / and every \, the path has a segment equal to "..".
Traverses(path) ==
    \E i \in 1..(Len(path) - 1) :
        /\ SubSeq(path, i, i + 1) = ".."
        /\ i = 1 \/ Separator(path, i - 1)
        /\ i + 1 = Len(path) \/ Separator(path, i + 2)

\* C17: validate_lockfile_json refuses with E_BAD_LOCKFILE every lockfile
\* with a member path that begins with / or \ or that has a segment equal to
\* ".." when split at / and \ (separators of both kinds in one path
\* included), so that no member path of a lockfile it accepts is absolute or
\* has a ".." segment.
NoAbsoluteOrTraversingMember ==
    Returned("validate_lockfile_json") =>
        IF \E path \in MemberPaths : Absolute(path) \/ Traverses(path)
        THEN /\ "err" \in DOMAIN ret.value
             /\ get(get(from_str(ret.value.err).ok, "refusal"), "code")
                  = JStr("E_BAD_LOCKFILE")
        ELSE "ok" \in DOMAIN ret.value

\* The members of the lockfile handed to verify_members, and for a member
\* what it stores and what the root holds at its path.
Members == get(call.lockfile_json, "members").items

StoredHash(member) ==
    IF get(member, "bytes_hash") = None THEN "" ELSE get(member, "bytes_hash").s

OnDisk(member) == map_get(call.root.files, get(member, "path").s)

SizeDiffers(member) ==
    get(member, "size") # None /\ OnDisk(member).size # get(member, "size").n

DigestDiffers(member) ==
    \A algorithm \in {"sha256", "blake3"} :
        StoredHash(member) # algorithm \o ":" \o OnDisk(member).hex

NoAlgorithm(member) ==
    \A algorithm \in {"sha256", "blake3"} :
        Len(StoredHash(member)) <= Len(algorithm)
        \/ SubSeq(StoredHash(member), 1, Len(algorithm) + 1) # algorithm \o ":"

\* The result the rules of C18 as stated give a member.
RuleStated(member) ==
    IF OnDisk(member) = None \/ ~OnDisk(member).exists THEN "MISSING"
    ELSE IF ~OnDisk(member).stat_ok THEN "IO_ERROR"
    ELSE IF SizeDiffers(member) THEN "SIZE_MISMATCH"
    ELSE IF ~OnDisk(member).read_ok THEN "IO_ERROR"
    ELSE IF DigestDiffers(member) THEN "HASH_MISMATCH"
    ELSE "verified"

\* The same with the rule for a bytes_hash that names no supported algorithm.
RuleAmended(member) ==
    IF OnDisk(member) = None \/ ~OnDisk(member).exists THEN "MISSING"
    ELSE IF ~OnDisk(member).stat_ok THEN "IO_ERROR"
    ELSE IF SizeDiffers(member) THEN "SIZE_MISMATCH"
    ELSE IF ~OnDisk(member).read_ok \/ NoAlgorithm(member) THEN "IO_ERROR"
    ELSE IF DigestDiffers(member) THEN "HASH_MISMATCH"
    ELSE "verified"

PathAndReason(entries) ==
    [i \in 1..Len(entries) |-> << get(entries[i], "path"), get(entries[i], "reason") >>]

\* The failures and the skips the rule gives the members, and the number of
\* members it finds verified.
Ruled(Rule(_), results) ==
    LET among == SelectSeq(Members, LAMBDA member : Rule(member) \in results)
    IN [i \in 1..Len(among) |-> << get(among[i], "path"), JStr(Rule(among[i])) >>]

PlaceOf(entry) == CHOOSE i \in 1..Len(Members) : get(Members[i], "path") = get(entry, "path")

InLockfileOrder(entries) ==
    \A i, k \in 1..Len(entries) : i < k => PlaceOf(entries[i]) < PlaceOf(entries[k])

\* C19: verify_members examines every member in order and stops at no
\* failure and no skip: checked is the number of members and is verified +
\* failed + skipped, failed is the length of failures, skipped the length of
\* skips, and failures and skips name their members in lockfile order.
EveryMemberExamined ==
    Returned("verify_members") =>
        /\ ret.value.checked = Len(Members)
        /\ ret.value.checked = ret.value.verified + ret.value.failed + ret.value.skipped
        /\ ret.value.failed = Len(ret.value.failures)
        /\ ret.value.skipped = Len(ret.value.skips)
        /\ InLockfileOrder(ret.value.failures)
        /\ InLockfileOrder(ret.value.skips)
        /\ \A i \in 1..Len(Members) :
              RuleAmended(Members[i]) # "verified" =>
                 \E entry \in Range(ret.value.failures) \cup Range(ret.value.skips) :
                    PlaceOf(entry) = i

\* Two members of which the first is a failure and the second is verified.
EveryMemberExaminedReached ==
    /\ Returned("verify_members")
    /\ Len(Members) = 2
    /\ ret.value.failed = 1 /\ PlaceOf(ret.value.failures[1]) = 1
    /\ ret.value.verified = 1 /\ ret.value.checked = 2

\* C20: members_outcome gives VERIFY_FAILED when failed > 0, VERIFY_PARTIAL
\* when failed = 0 and skipped > 0 without --strict, VERIFY_FAILED when
\* failed = 0 and skipped > 0 with --strict, and VERIFY_OK otherwise;
\* --strict never changes the exit code, and never changes the outcome when
\* skipped = 0.
OutcomeOfMembers ==
    Returned("members_outcome") =>
        LET failed == call.members_result.failed
            skipped == call.members_result.skipped
            other == members_outcome(call.members_result, ~call.strict)
        IN /\ failed > 0 => ret.value[1] = "VERIFY_FAILED"
           /\ (failed = 0 /\ skipped > 0 /\ ~call.strict) => ret.value[1] = "VERIFY_PARTIAL"
           /\ (failed = 0 /\ skipped > 0 /\ call.strict) => ret.value[1] = "VERIFY_FAILED"
           /\ (failed = 0 /\ skipped = 0) => ret.value[1] = "VERIFY_OK"
           /\ ret.value[2] = other[2]
           /\ skipped = 0 => ret.value[1] = other[1]

\* A result without failures and with a skip next to a verified member,
\* under --strict: VERIFY_FAILED with exit code 1.
OutcomeOfMembersReached ==
    /\ Returned("members_outcome")
    /\ call.strict
    /\ call.members_result.failed = 0 /\ call.members_result.skipped = 1
    /\ call.members_result.verified = 1
    /\ ret.value = << "VERIFY_FAILED", 1 >>

\* C28: when validate_lockfile_json accepts the lockfile, verify_members
\* skips no member because of an unsupported hash algorithm, whatever the
\* member's bytes_hash is (also missing).
ValidatedMembersHaveAlgorithm ==
    (/\ Returned("verify_members")
     /\ "ok" \in DOMAIN validate_lockfile_json(to_string(call.lockfile_json))) =>
        \A i \in 1..Len(ret.value.skips) :
            get(ret.value.skips[i], "detail") # JStr("unsupported algorithm: {prefix}")

\* The timestamp texts of the model that are RFC 3339, with their instants
\* in minutes after 2025-12-31T22:00:00Z.
Instants ==
    ("2026-01-01T00:00:00+02:00" :> 0) @@ ("2025-12-31T22:00:00Z" :> 0)
    @@ ("2025-12-31T22:15:00Z" :> 15) @@ ("2025-12-31T22:30:00Z" :> 30)
    @@ ("2025-12-31T23:30:00+01:00" :> 30) @@ ("2025-12-31T21:00:00Z" :> -60)

HasInstant(text) == text # None /\ text.some \in DOMAIN Instants

InstantOf(text) == Instants[text.some]

\* The record satisfies the filter set: every filter that is given.
Satisfies(record, filters) ==
    /\ filters.tool # None => record.tool = filters.tool
    /\ filters.outcome # None => record.outcome = filters.outcome
    /\ filters.input_hash # None =>
          /\ record.inputs # None
          /\ \E input \in Range(record.inputs.some) :
                get(input, "hash") = JStr("sha256:" \o filters.input_hash.some)
    /\ filters.since # None =>
          /\ HasInstant(filters.since) /\ HasInstant(record.ts)
          /\ InstantOf(record.ts) > InstantOf(filters.since)
    /\ filters.until # None =>
          /\ HasInstant(filters.until) /\ HasInstant(record.ts)
          /\ InstantOf(record.ts) < InstantOf(filters.until)

\* C22: a record matches a filter set exactly when it satisfies every filter
\* that is given: tool and outcome equal, an input whose hash contains
\* input_hash, its instant strictly after since and strictly before until,
\* instants compared as such whatever their offsets; a since or until that
\* is no timestamp, or a record without a ts that parses, is no match.
MatchesEveryFilter ==
    Returned("matches_filters") =>
        (ret.value <=> Satisfies(call.record, call.filters))

\* C22 witness: a record whose ts, written with an offset, is after since as
\* a string and before it as an instant, does not match.
MatchesEveryFilterReached ==
    /\ Returned("matches_filters")
    /\ call.record.ts = Some("2026-01-01T00:00:00+02:00")
    /\ call.filters = [NoFilters EXCEPT !.since = Some("2025-12-31T22:15:00Z")]
    /\ ret.value = FALSE

\* The records dispatch_query printed.
Returned_records ==
    IF ret.value.stdout = None THEN <<>> ELSE ret.value.stdout.records

\* C23: witness query returns the first limit of the matching records in an
\* order that is most recent first: the returned records with an instant
\* are in descending order of instant, and no matching record left out is
\* more recent than a returned one; it exits 0 when it returns a record, 1
\* when it returns none, 2 when the ledger cannot be read.
QueryMostRecentFirst ==
    Returned("dispatch_query") =>
        IF ledgerExists /\ ~call.readable
        THEN ret.value.exit_code = 2 /\ Returned_records = <<>>
        ELSE LET matching == SelectSeq(read_ledger(ledgerExists, ledgerBytes),
                                       LAMBDA r : Satisfies(r, call.filters))
                 n == Len(matching)
                 cut == Len(Returned_records)
                 before(a, b) ==
                     (HasInstant(a.ts) /\ HasInstant(b.ts))
                         => InstantOf(a.ts) >= InstantOf(b.ts)
             IN /\ ret.value.exit_code = (IF cut = 0 THEN 1 ELSE 0)
                /\ cut = (IF n < call.limit THEN n ELSE call.limit)
                /\ \E p \in Permutations(1..n) :
                      /\ Returned_records = [i \in 1..cut |-> matching[p[i]]]
                      /\ \A i, j \in 1..n :
                            (i < j /\ i <= cut) => before(matching[p[i]], matching[p[j]])

\* C30: the comparison that orders the records of the ledger in query and
\* last is a total preorder on them: comparing two records one way round
\* gives the reverse of comparing them the other way round, and it is
\* transitive.
CompareIsTotalPreorder ==
    (Returned("dispatch_query") \/ Returned("dispatch_last")) =>
        LET recs == Range(read_ledger(ledgerExists, ledgerBytes))
            not_after(a, b) == compare_ts(a, b) # "Greater"
        IN /\ \A a, b \in recs :
                 /\ not_after(a, b) \/ not_after(b, a)
                 /\ (compare_ts(a, b) = "Equal") <=> (compare_ts(b, a) = "Equal")
                 /\ (compare_ts(a, b) = "Less") <=> (compare_ts(b, a) = "Greater")
           /\ \A a, b, c \in recs :
                 (not_after(a, b) /\ not_after(b, c)) => not_after(a, c)

\* C24: a call of the tool leaves what the ledger file held at the head of
\* what it holds afterwards, whether the call is an append that succeeds or
\* fails; and query, last and count leave the file as it is.
LedgerAppendOnly ==
    [][(call # None /\ "ledger" \in DOMAIN call) =>
          /\ ledgerExists => ledgerExists'
          /\ Len(ledgerBytes) <= Len(ledgerBytes')
          /\ SubSeq(ledgerBytes', 1, Len(ledgerBytes)) = ledgerBytes
          /\ call.op \in {"dispatch_query", "dispatch_last", "dispatch_count"}
                => UNCHANGED ledgerVars]_vars

\* C24 witness: an append that failed in its write has left bytes after the
\* two record lines the ledger held.
LedgerAppendOnlyReached ==
    /\ Returned("append_witness_record_to")
    /\ ret.value = "Err"
    /\ Len(call.ledger.bytes) = 4
    /\ Len(ledgerBytes) > 4
    /\ SubSeq(ledgerBytes, 1, 4) = call.ledger.bytes

====
